---- MODULE Spec2Model ----
(***************************************************************************)
(* Model of the document ingestion pipeline of the repository:             *)
(*   src/workflows/document-processing.workflow.ts  (the orchestrator)     *)
(*   src/activities/document-processing.ts          (the stage activities) *)
(*   src/unnamed/part_006                           (the email workflows)  *)
(*   src/activities/email-processing.ts             (the email activities) *)
(*                                                                         *)
(* One document is followed from its creation to the end of its            *)
(* DocumentProcessingWorkflow run.  Every attempt of an activity is one    *)
(* step: the statements of the attempt, and the workflow code that runs    *)
(* when the attempt returns or throws, up to the next await.  The parallel *)
(* extractTextFromPage requests are one step per attempt and per page, so  *)
(* that they interleave in every order.  What the outside world answers    *)
(* (the rasterizer, the OCR service, the database, the mailbox) is a       *)
(* nondeterministic choice.  The statements of a catch block are taken to  *)
(* succeed.                                                                *)
(***************************************************************************)
EXTENDS Integers, Sequences, FiniteSets, Bags, TLC

\* ---------------------------------------------------------------- bounds
MaxFiles == 2       \* files of one upload
MaxPages == 2       \* pages of the files of one upload, in total
MaxFailures == 1    \* attempts of one run that fail for a passing reason

\* ------------------------------------------------------- program constants
\* retry policy of proxyActivities (document-processing.workflow.ts:14-19,
\* the same values in part_006:15-20); intervals in seconds
initialInterval == 1
maximumInterval == 30
backoffCoefficient == 2
maximumAttempts == 3
\* page number of the synthetic title/notes page
MetadataPage == 0 - 1

\* ------------------------------------------------------------------ texts
Titles == {" ", "T"}            \* title argument: blank, text
NotesSet == {"", "N"}           \* notes argument: absent or empty, text
OcrTexts == {"", "txt"}         \* what extractTextWithLLM returns (trimmed)

\* String.prototype.trim on the strings of the model
trim(s) == IF s = " " THEN "" ELSE s

Users == {"a", "b"}             \* the users

FileKinds == {"pdf", "img", "bad"}  \* .pdf / .png .jpg .jpeg / anything else
FileSet == [kind : {"pdf"}, pages : 0..MaxPages]
             \cup [kind : {"img", "bad"}, pages : {1}]

RECURSIVE TotalPages(_)
\* pages of a list of files
TotalPages(fs) ==
  IF fs = <<>> THEN 0 ELSE Head(fs).pages + TotalPages(Tail(fs))

RECURSIVE SeqsUpTo(_, _)
SeqsUpTo(S, n) ==
  IF n = 0 THEN {<<>>}
  ELSE LET shorter == SeqsUpTo(S, n - 1)
       IN shorter \cup {Append(q, x) : q \in {r \in shorter : Len(r) = n - 1}, x \in S}

Min(a, b) == IF a < b THEN a ELSE b

RECURSIVE Pow(_, _)
Pow(b, e) == IF e = 0 THEN 1 ELSE b * Pow(b, e - 1)

VARIABLES
  status,         \* documents.status; "NONE" while the row does not exist
  statusLog,      \* the values status has taken, in order
  filePath,       \* documents.file_path: "" (placeholder) or "set"
  wfTitle,        \* argument title of DocumentProcessingWorkflow
  wfNotes,        \* argument notes of DocumentProcessingWorkflow
  files,          \* argument filePaths: sequence of [kind, pages]
  pc,             \* the await the run is suspended at
  fileIdx,        \* position of the for loop over filePaths (1-based)
  allImagePaths,  \* page number in the name page-<n>.png of every image path
  pageOffset,
  pages,          \* the extractTextFromPage requests, one per image path
  textPages,      \* the argument handed to generateVectors
  attempt,        \* attempt number of the activity the run awaits
  waits,          \* backoff intervals waited for that activity so far
  procStatus,     \* processing_status rows, in creation order
  vectors,        \* vectors rows, in insertion order
  failure,        \* type of the failure the run ended with, or "none"
  failedAt,       \* activity whose failure ended the run, or "none"
  started,        \* activities of which an attempt has begun, in order
  failures,       \* attempts that failed for a passing reason so far
  broken,         \* the activity the run awaits fails for a lasting reason
  thrownAt,       \* where the last failed attempt of generateVectors threw
  documentId,     \* documents.id of the row; "none" while it does not exist
  childHandle,    \* the DocumentProcessingWorkflow runs started, in order
  \* --- mailbox polling (EmailIngestionSchedulerWorkflow, CheckUserEmailsWorkflow)
  lastUid,        \* users.imap_last_uid of every user; 0 for null
  mailbox,        \* uids of the messages in the folder of every user
  sched,          \* the EmailIngestionSchedulerWorkflow run of the current tick
  runs,           \* the CheckUserEmailsWorkflow runs, in start order
  children,       \* <<user, uid>> of the EmailDocumentProcessingWorkflow runs open
  \* --- search and vectorizer (embeddings.ts, sparse-vectors.ts, GET /search)
  args,           \* the arguments of the call followed
  result,         \* what the call returned; fn "none" before the call
  db,             \* the tables documents and vectors the search reads
  \* --- the namespace of the Temporal server (src/workflows/client.ts)
  temporal        \* the DocumentProcessingWorkflow runs open, by workflow id

docVars == <<status, statusLog, filePath, wfTitle, wfNotes, files, pc, fileIdx, allImagePaths,
          pageOffset, pages, textPages, attempt, waits,
          procStatus, vectors, failure, failedAt, started, failures, broken,
          thrownAt, documentId, childHandle>>

mailVars == <<lastUid, mailbox, sched, runs, children>>

searchVars == <<args, result, db>>

\* what the steps of document processing leave alone
notDoc == <<mailVars, searchVars, temporal>>

\* what the steps of mailbox polling leave alone
notMail == <<docVars, searchVars, temporal>>

vars == <<docVars, notDoc>>

\* ------------------------------------------------------------ retry policy
\* interval the server waits after the n-th failed attempt
RetryInterval(n) ==
  Min(initialInterval * Pow(backoffCoefficient, n - 1), maximumInterval)

\* a policy that allows one attempt more
ShouldRetryOnceMore(n) == n < maximumAttempts + 1

\* an attempt that threw is followed by another one
ShouldRetry(n) == n < maximumAttempts

\* ------------------------------------------------- processing_status rows
NewRecord(stage) ==
  [stage |-> stage, completed |-> FALSE, error |-> FALSE, retry |-> 0]

\* findFirst({stage}, orderBy started_at desc): index of the row, 0 if none
FindFirst(rows, stage) ==
  LET idx == {i \in 1..Len(rows) : rows[i].stage = stage}
  IN IF idx = {} THEN 0 ELSE CHOOSE i \in idx : \A j \in idx : j <= i

\* the row found is left without its completion time
LeftOpen(rows, stage) == rows

\* update({completed_at: new Date()}) on the row found, if any
CloseRecord(rows, stage) ==
  LET i == FindFirst(rows, stage)
  IN IF i = 0 THEN rows ELSE [rows EXCEPT ![i].completed = TRUE]

\* update({error_message, retry_count: {increment: 1}}) on the row found
ErrorRecord(rows, stage) ==
  LET i == FindFirst(rows, stage)
  IN IF i = 0 THEN rows
     ELSE [rows EXCEPT ![i].error = TRUE, ![i].retry = @ + 1]

RECURSIVE Logged(_, _)
\* the log after the writes ws; a write of the value held is no change
Logged(log, ws) ==
  IF ws = <<>> THEN log
  ELSE Logged(IF log[Len(log)] = Head(ws) THEN log ELSE Append(log, Head(ws)),
              Tail(ws))

\* prisma.documents.update({data: {status}}), once per element of ws
SetStatus(ws) ==
  /\ status' = ws[Len(ws)]
  /\ statusLog' = Logged(statusLog, ws)

\* the row of the document is in the documents table: it was not deleted
RowExists == status # "DELETED"

\* an attempt of the activity the run awaits begins
Begin(activity) ==
  started' = IF attempt = 1 THEN Append(started, activity) ELSE started

\* the attempt returns
Returns ==
  /\ ~broken
  /\ UNCHANGED <<failures, broken>>

\* the attempt fails for a reason outside the program (database, network,
\* rasterizer, renderer, mailbox): a reason that lasts for every attempt of the
\* activity (a service that is down, a variable of the environment that is
\* not set, a file that cannot be read), present from the first attempt on
\* and met at the same statement by every attempt, or a reason that passes
Outside ==
  \/ /\ broken
     /\ UNCHANGED <<failures, broken>>
  \/ /\ ~broken
     /\ attempt = 1
     /\ broken' = TRUE
     /\ UNCHANGED failures
  \/ /\ ~broken
     /\ failures < MaxFailures
     /\ failures' = failures + 1
     /\ UNCHANGED broken

\* the attempt threw: the retry policy schedules another one or the
\* failure reaches the workflow, which has no try/catch and fails
Thrown(activity) ==
  IF ShouldRetry(attempt)
  THEN /\ attempt' = attempt + 1
       /\ waits' = Append(waits, RetryInterval(attempt))
       /\ UNCHANGED <<pc, failure, failedAt>>
  ELSE /\ pc' = "failed"
       /\ failure' = "ActivityFailure"
       /\ failedAt' = activity
       /\ UNCHANGED <<attempt, waits>>

\* the activity returned and the run awaits the next one
Await(next) ==
  /\ pc' = next
  /\ attempt' = 1
  /\ waits' = <<>>
  /\ UNCHANGED <<failure, failedAt>>

\* throw ApplicationFailure.create({type}) in the workflow code
Fail(type) ==
  /\ pc' = "failed"
  /\ failure' = type
  /\ failedAt' = "workflow"
  /\ UNCHANGED <<attempt, waits>>

\* ------------------------------------------------------------------- Init
\* the ids the database hands out for a new row of documents (uuid)
Uuids == {"d1", "d2"}

\* the same id for the run of every document
sharedWorkflowId(id) == "doc-processing-d1"

\* workflowId: `doc-processing-${documentId}` (workflows/client.ts:50,
\* part_006:133)
workflowId(id) == "doc-processing-" \o id

\* the namespace while the starts of runs are not followed: no document,
\* no run
NoRuns ==
  [documents |-> {}, pending |-> {}, open |-> {}, writing |-> {}, starts |-> 0]

\* A document created by POST /api/documents/upload (documents.ts:128-181):
\* the row exists with status UPLOADED and the run has been started, under
\* the workflow id of the document (workflows/client.ts:47-51).
InitUpload ==
  /\ status = "UPLOADED"
  /\ statusLog = <<"UPLOADED">>
  /\ filePath = "set"
  /\ wfTitle \in Titles
  /\ wfNotes \in NotesSet
  /\ files \in {fs \in SeqsUpTo(FileSet, MaxFiles) : TotalPages(fs) <= MaxPages}
  /\ pc = "start"
  /\ documentId = "d1"
  /\ childHandle = <<[workflowId |-> workflowId("d1"), documentId |-> "d1"]>>
  /\ temporal = NoRuns

\* A message handed to EmailDocumentProcessingWorkflow (part_006:104-109):
\* no row yet; the subject is the title.
InitEmail ==
  /\ status = "NONE"
  /\ statusLog = <<"NONE">>
  /\ filePath = "none"
  /\ wfTitle \in Titles
  /\ wfNotes = ""
  /\ files = <<>>
  /\ pc = "fetchEmailHtml"
  /\ documentId = "none"
  /\ childHandle = <<>>
  /\ temporal = NoRuns

\* nobody polls a mailbox
MailIdle ==
  /\ lastUid = [u \in Users |-> 0]
  /\ mailbox = [u \in Users |-> {}]
  /\ sched = [pc |-> "idle", users |-> <<>>, idx |-> 1, tick |-> 0]
  /\ runs = <<>>
  /\ children = {}

\* no call of the search functions is followed
SearchIdle ==
  /\ args = [fn |-> "none"]
  /\ result = [fn |-> "none"]
  /\ db = [documents |-> <<>>, vectors |-> <<>>]

Init ==
  /\ InitUpload \/ InitEmail
  /\ MailIdle
  /\ SearchIdle
  /\ fileIdx = 1
  /\ allImagePaths = <<>>
  /\ pageOffset = 0
  /\ pages = <<>>
  /\ textPages = <<>>
  /\ attempt = 1
  /\ waits = <<>>
  /\ procStatus = <<>>
  /\ vectors = <<>>
  /\ failure = "none"
  /\ failedAt = "none"
  /\ started = <<>>
  /\ failures = 0
  /\ broken = FALSE
  /\ thrownAt = [point |-> "none", k |-> 0]

\* ------------------------------------------ EmailDocumentProcessingWorkflow
docPart == <<fileIdx, allImagePaths, pageOffset, pages, textPages,
             procStatus, vectors>>

\* part_006:112, email-processing.ts:135-220
fetchEmailHtmlOk ==
  /\ UNCHANGED notDoc
  /\ UNCHANGED <<thrownAt, documentId, childHandle>>
  /\ pc = "fetchEmailHtml"
  /\ Begin("fetchEmailHtml")
  /\ Returns
  /\ \E n \in NotesSet : wfNotes' = n
  /\ Await("createDocumentRecord")
  /\ UNCHANGED <<status, statusLog, filePath, wfTitle, files, docPart>>

fetchEmailHtmlFail ==
  /\ UNCHANGED notDoc
  /\ UNCHANGED <<thrownAt, documentId, childHandle>>
  /\ pc = "fetchEmailHtml"
  /\ Begin("fetchEmailHtml")
  /\ Outside
  /\ Thrown("fetchEmailHtml")
  /\ UNCHANGED <<status, statusLog, filePath, wfTitle, wfNotes, files, docPart>>

\* part_006:116, email-processing.ts:276-294
createDocumentRecordOk ==
  /\ UNCHANGED notDoc
  /\ UNCHANGED <<thrownAt, childHandle>>
  /\ pc = "createDocumentRecord"
  /\ Begin("createDocumentRecord")
  /\ Returns
  /\ SetStatus(<<"UPLOADED">>)
  /\ filePath' = ""
  /\ \E id \in Uuids : documentId' = id
  /\ Await("convertHtmlToPdf")
  /\ UNCHANGED <<wfTitle, wfNotes, files, docPart>>

createDocumentRecordFail ==
  /\ UNCHANGED notDoc
  /\ UNCHANGED <<thrownAt, documentId, childHandle>>
  /\ pc = "createDocumentRecord"
  /\ Begin("createDocumentRecord")
  /\ Outside
  /\ Thrown("createDocumentRecord")
  /\ UNCHANGED <<status, statusLog, filePath, wfTitle, wfNotes, files, docPart>>

\* part_006:120, email-processing.ts:225-271; the rendered PDF has n pages
convertHtmlToPdfOk ==
  /\ UNCHANGED notDoc
  /\ UNCHANGED <<thrownAt, documentId, childHandle>>
  /\ pc = "convertHtmlToPdf"
  /\ Begin("convertHtmlToPdf")
  /\ Returns
  /\ \E n \in 1..MaxPages : files' = <<[kind |-> "pdf", pages |-> n]>>
  /\ Await("updateDocumentPath")
  /\ UNCHANGED <<status, statusLog, filePath, wfTitle, wfNotes, docPart>>

convertHtmlToPdfFail ==
  /\ UNCHANGED notDoc
  /\ UNCHANGED <<thrownAt, documentId, childHandle>>
  /\ pc = "convertHtmlToPdf"
  /\ Begin("convertHtmlToPdf")
  /\ Outside
  /\ Thrown("convertHtmlToPdf")
  /\ UNCHANGED <<status, statusLog, filePath, wfTitle, wfNotes, files, docPart>>

\* part_006:124, email-processing.ts:299-312
updateDocumentPathOk ==
  /\ UNCHANGED notDoc
  /\ UNCHANGED <<thrownAt, documentId, childHandle>>
  /\ RowExists
  /\ pc = "updateDocumentPath"
  /\ Begin("updateDocumentPath")
  /\ Returns
  /\ filePath' = "set"
  /\ Await("startChild")
  /\ UNCHANGED <<status, statusLog, wfTitle, wfNotes, files, docPart>>

updateDocumentPathFail ==
  /\ UNCHANGED notDoc
  /\ UNCHANGED <<thrownAt, documentId, childHandle>>
  /\ RowExists
  /\ pc = "updateDocumentPath"
  /\ Begin("updateDocumentPath")
  /\ Outside
  /\ Thrown("updateDocumentPath")
  /\ UNCHANGED <<status, statusLog, filePath, wfTitle, wfNotes, files, docPart>>

\* part_006:132-137: startChild(DocumentProcessingWorkflow, [documentId,
\* [pdfPath], subject, emailMetadataText])
startChild ==
  /\ UNCHANGED notDoc
  /\ UNCHANGED <<thrownAt, documentId>>
  /\ pc = "startChild"
  /\ pc' = "start"
  /\ childHandle' = Append(childHandle, [workflowId |-> workflowId(documentId),
                                          documentId |-> documentId])
  /\ UNCHANGED <<status, statusLog, filePath, wfTitle, wfNotes, files, docPart, attempt,
                 waits, failure, failedAt, started, failures, broken>>

\* ----------------------------------------------- DocumentProcessingWorkflow
\* if (allImagePaths.length === 0) throw ImageConversionError, else stage 2
\* (document-processing.workflow.ts:55-65)
AfterLoop(paths) ==
  IF Len(paths) = 0 THEN Fail("ImageConversionError")
  ELSE Await("startOcrProcessing")

\* the run begins: lines 42-47, with the for loop over no file at all
DocumentProcessingWorkflow ==
  /\ UNCHANGED notDoc
  /\ UNCHANGED <<thrownAt, documentId, childHandle>>
  /\ pc = "start"
  /\ IF files = <<>> THEN AfterLoop(allImagePaths)
     ELSE Await("convertPdfToImages")
  /\ UNCHANGED <<status, statusLog, filePath, wfTitle, wfNotes, files, docPart, started,
                 failures, broken>>

\* number of images convertPdfToImages makes of a file (lines 58-98)
PageCount(f) == IF f.kind = "pdf" THEN f.pages ELSE 1

\* names that restart at page-0.png for every file
ImagePathsNoOffset(k, offset) == [i \in 1..k |-> i - 1]

\* page-<n>.png names of the first k images of a file (lines 86 and 96)
ImagePaths(k, offset) == [i \in 1..k |-> offset + (i - 1)]

Range(q) == {q[i] : i \in 1..Len(q)}

\* lines 49-53 and the end of the loop
LoopStep(imagePaths) ==
  LET all == IF Len(imagePaths) > 0 THEN allImagePaths \o imagePaths
             ELSE allImagePaths
  IN /\ allImagePaths' = all
     /\ pageOffset' = IF Len(imagePaths) > 0 THEN pageOffset + Len(imagePaths)
                      ELSE pageOffset
     /\ fileIdx' = fileIdx + 1
     /\ IF fileIdx < Len(files) THEN Await("convertPdfToImages")
        ELSE AfterLoop(all)

\* document-processing.ts:32-119, an attempt that returns
convertPdfToImagesOk ==
  /\ UNCHANGED notDoc
  /\ UNCHANGED <<thrownAt, documentId, childHandle>>
  /\ RowExists
  /\ pc = "convertPdfToImages"
  /\ files[fileIdx].kind # "bad"
  /\ Begin("convertPdfToImages")
  /\ Returns
  /\ LET imagePaths == ImagePaths(PageCount(files[fileIdx]), pageOffset)
     IN /\ procStatus' = CloseRecord(Append(procStatus, NewRecord("PDF_CONVERSION")),
                                     "PDF_CONVERSION")
        /\ SetStatus(<<"PROCESSING">>)
        /\ LoopStep(imagePaths)
  /\ UNCHANGED <<filePath, wfTitle, wfNotes, files, pages, textPages, vectors>>

\* an attempt that throws: at the create of the status row, while making
\* the images, or while closing the status row; for an unsupported type it
\* is the throw of line 100.  Then the catch of lines 120-147.
convertPdfToImagesFail ==
  /\ UNCHANGED notDoc
  /\ UNCHANGED <<thrownAt, documentId, childHandle>>
  /\ RowExists
  /\ pc = "convertPdfToImages"
  /\ Begin("convertPdfToImages")
  /\ \E point \in {"create", "io", "unsupported", "close"} :
       /\ point = "unsupported" <=> files[fileIdx].kind = "bad" /\ point # "create"
       /\ IF point = "unsupported" THEN UNCHANGED <<failures, broken>> ELSE Outside
       /\ broken' => point \in {"io", "unsupported"}
       /\ procStatus' = ErrorRecord(
              IF point = "create" THEN procStatus
              ELSE Append(procStatus, NewRecord("PDF_CONVERSION")),
              "PDF_CONVERSION")
       /\ SetStatus(IF point = "create" THEN <<"ERROR">>
                    ELSE <<"PROCESSING", "ERROR">>)
  /\ Thrown("convertPdfToImages")
  /\ UNCHANGED <<filePath, wfTitle, wfNotes, files, fileIdx, allImagePaths,
                 pageOffset, pages, textPages, vectors>>

\* document-processing.ts:154-172, an attempt that returns; then the
\* workflow issues one extractTextFromPage(imagePath, index) per image path
\* (document-processing.workflow.ts:68-71)
startOcrProcessingOk ==
  /\ UNCHANGED notDoc
  /\ UNCHANGED <<thrownAt, documentId, childHandle>>
  /\ RowExists
  /\ pc = "startOcrProcessing"
  /\ Begin("startOcrProcessing")
  /\ Returns
  /\ procStatus' = Append(procStatus, NewRecord("OCR_EXTRACTION"))
  /\ pages' = [i \in 1..Len(allImagePaths) |->
                 [state |-> "pending", attempt |-> 1, waits |-> <<>>,
                  broken |-> FALSE, imagePath |-> allImagePaths[i], pageNumber |-> i - 1,
                  text |-> "", settled |-> 0]]
  /\ Await("extractTextFromPage")
  /\ UNCHANGED <<status, statusLog, filePath, wfTitle, wfNotes, files, fileIdx,
                 allImagePaths, pageOffset, textPages, vectors>>

\* the findUnique or the create throws; the activity has no catch
startOcrProcessingFail ==
  /\ UNCHANGED notDoc
  /\ UNCHANGED <<thrownAt, documentId, childHandle>>
  /\ RowExists
  /\ pc = "startOcrProcessing"
  /\ Begin("startOcrProcessing")
  /\ Outside
  /\ Thrown("startOcrProcessing")
  /\ UNCHANGED <<status, statusLog, filePath, wfTitle, wfNotes, files, docPart>>

\* document-processing.ts:209-215: the OCR service answers with a text
extractTextFromPageOk(p) ==
  /\ UNCHANGED notDoc
  /\ UNCHANGED <<thrownAt, documentId, childHandle>>
  /\ pc = "extractTextFromPage"
  /\ pages[p].state = "pending"
  /\ ~pages[p].broken
  /\ \E t \in OcrTexts :
       pages' = [pages EXCEPT
                   ![p].state = "done", ![p].text = t,
                   ![p].attempt = 1, ![p].waits = <<>>,
                   ![p].settled = 1 + Cardinality({q \in 1..Len(pages) :
                                                     pages[q].state = "done"})]
  /\ UNCHANGED <<status, statusLog, filePath, wfTitle, wfNotes, files, pc,
                 fileIdx, allImagePaths, pageOffset, textPages, attempt, waits,
                 procStatus, vectors, failure, failedAt, started, failures,
                 broken>>

\* the request throws (OPENAI_API_KEY is not set, the image cannot be read,
\* the service answers with an error), for a lasting or a passing reason: it
\* is retried on its own, and when its last attempt has thrown Promise.all
\* rejects and the workflow fails
extractTextFromPageFail(p) ==
  /\ UNCHANGED notDoc
  /\ UNCHANGED <<thrownAt, documentId, childHandle>>
  /\ pc = "extractTextFromPage"
  /\ pages[p].state = "pending"
  /\ \E lasting \in BOOLEAN :
       /\ lasting => pages[p].broken \/ pages[p].attempt = 1
       /\ ~lasting => ~pages[p].broken /\ failures < MaxFailures
       /\ failures' = IF lasting THEN failures ELSE failures + 1
       /\ IF ShouldRetry(pages[p].attempt)
          THEN /\ pages' = [pages EXCEPT
                              ![p].attempt = @ + 1,
                              ![p].waits = Append(@, RetryInterval(pages[p].attempt)),
                              ![p].broken = lasting]
               /\ UNCHANGED <<pc, failure, failedAt>>
          ELSE /\ pages' = [pages EXCEPT ![p].state = "failed"]
               /\ pc' = "failed"
               /\ failure' = "ActivityFailure"
               /\ failedAt' = "extractTextFromPage"
  /\ UNCHANGED <<status, statusLog, filePath, wfTitle, wfNotes, files, fileIdx,
                 allImagePaths, pageOffset, textPages, attempt, waits,
                 procStatus, vectors, started, broken>>

\* a join that is over as soon as one promise is fulfilled
JoinedAny(ps) == \E p \in 1..Len(ps) : ps[p].state = "done"

\* await Promise.all(textPagePromises) is over: every promise is fulfilled
Joined(ps) == \A p \in 1..Len(ps) : ps[p].state = "done"

\* the results in the order in which the requests returned
InSettledOrder(ps) ==
  [k \in 1..Len(ps) |->
     LET p == CHOOSE q \in 1..Len(ps) : ps[q].settled = k
     IN [pageNumber |-> ps[p].pageNumber, text |-> ps[p].text]]

\* the value of await Promise.all(textPagePromises): the results of the
\* promises in the order of the array (document-processing.workflow.ts:68-71)
InPromiseOrder(ps) ==
  [p \in 1..Len(ps) |-> [pageNumber |-> ps[p].pageNumber, text |-> ps[p].text]]

\* document-processing.workflow.ts:71-74: the join, its results in the
\* order of the promises
PromiseAll ==
  /\ UNCHANGED notDoc
  /\ UNCHANGED <<thrownAt, documentId, childHandle>>
  /\ pc = "extractTextFromPage"
  /\ Joined(pages)
  /\ textPages' = InPromiseOrder(pages)
  /\ Await("completeOcrProcessing")
  /\ UNCHANGED <<status, statusLog, filePath, wfTitle, wfNotes, files, fileIdx,
                 allImagePaths, pageOffset, pages, procStatus,
                 vectors, started, failures, broken>>

\* the lines of the title/notes page (document-processing.workflow.ts:85-91,
\* embeddings.ts:457-465)
MetadataLines(title, notes) ==
  (IF title # "" /\ trim(title) # "" THEN <<"Title: " \o trim(title)>> ELSE <<>>)
  \o (IF notes # "" /\ trim(notes) # "" THEN <<"Notes: " \o trim(notes)>> ELSE <<>>)

\* metadataText.join('\n\n'), "|" standing for the blank line
JoinLines(lines) ==
  IF Len(lines) = 0 THEN ""
  ELSE IF Len(lines) = 1 THEN lines[1]
  ELSE lines[1] \o "|" \o lines[2]

\* the title/notes page put after the OCR pages
WithMetadataPageLast(tp, title, notes) ==
  LET metadataText == MetadataLines(title, notes)
  IN IF Len(metadataText) > 0
     THEN tp \o <<[pageNumber |-> MetadataPage, text |-> JoinLines(metadataText)]>>
     ELSE tp

\* document-processing.workflow.ts:84-98
WithMetadataPage(tp, title, notes) ==
  LET metadataText == MetadataLines(title, notes)
  IN IF Len(metadataText) > 0
     THEN <<[pageNumber |-> MetadataPage, text |-> JoinLines(metadataText)]>> \o tp
     ELSE tp

\* the promises are out of use once the workflow has gone past the join:
\* the order in which they were settled is no longer held anywhere
Released(ps) == [p \in 1..Len(ps) |-> [ps[p] EXCEPT !.settled = 0]]

\* document-processing.ts:178-200, an attempt that returns; then lines
\* 76-98 of the workflow
completeOcrProcessingOk ==
  /\ UNCHANGED notDoc
  /\ UNCHANGED <<thrownAt, documentId, childHandle>>
  /\ RowExists
  /\ pc = "completeOcrProcessing"
  /\ Begin("completeOcrProcessing")
  /\ Returns
  /\ SetStatus(<<"OCR_COMPLETE">>)
  /\ procStatus' = CloseRecord(procStatus, "OCR_EXTRACTION")
  /\ IF Len(textPages) = 0
     THEN Fail("OCRExtractionError") /\ UNCHANGED textPages
     ELSE /\ textPages' = WithMetadataPage(textPages, wfTitle, wfNotes)
          /\ Await("generateVectors")
  /\ pages' = Released(pages)
  /\ UNCHANGED <<filePath, wfTitle, wfNotes, files, fileIdx, allImagePaths,
                 pageOffset, vectors>>

\* an attempt that throws, at the update of the document (nothing is
\* written) or after it; the activity has no catch
completeOcrProcessingFail ==
  /\ UNCHANGED notDoc
  /\ UNCHANGED <<thrownAt, documentId, childHandle>>
  /\ RowExists
  /\ pc = "completeOcrProcessing"
  /\ Begin("completeOcrProcessing")
  /\ Outside
  /\ \E point \in {"update", "close"} :
       /\ broken' => point = "update"
       /\ IF point = "update" THEN UNCHANGED <<status, statusLog>>
          ELSE SetStatus(<<"OCR_COMPLETE">>)
  /\ Thrown("completeOcrProcessing")
  /\ UNCHANGED <<filePath, wfTitle, wfNotes, files, docPart>>

\* no page is skipped
NeverBlank(text) == FALSE

\* if (!page.text.trim()) continue (document-processing.ts:305-308)
Blank(text) == trim(text) = ""

RECURSIVE Inserted(_, _)
\* the rows the loop of lines 303-325 inserts for the text pages tp
Inserted(rows, tp) ==
  IF tp = <<>> THEN rows
  ELSE Inserted(IF Blank(Head(tp).text) THEN rows
                ELSE Append(rows, [page |-> Head(tp).pageNumber,
                                   text |-> Head(tp).text]),
                Tail(tp))

\* the rows of an attempt undone when it throws
RolledBack(before, now) == before

\* the vectors table after an attempt that threw: every INSERT is a statement
\* of its own on the pool, outside any transaction, and the catch of lines
\* 342-369 deletes nothing
Kept(before, now) == now

\* document-processing.ts:290-341, an attempt that returns
generateVectorsOk ==
  /\ UNCHANGED notDoc
  /\ UNCHANGED <<thrownAt, documentId, childHandle>>
  /\ RowExists
  /\ pc = "generateVectors"
  /\ Begin("generateVectors")
  /\ Returns
  /\ procStatus' = CloseRecord(Append(procStatus, NewRecord("VECTORIZATION")),
                               "VECTORIZATION")
  /\ vectors' = Inserted(vectors, textPages)
  /\ Await("indexDocument")
  /\ UNCHANGED <<status, statusLog, filePath, wfTitle, wfNotes, files, fileIdx,
                 allImagePaths, pageOffset, pages, textPages>>

\* an attempt that throws: at the create of the status row, at the insert
\* of the k-th text page (the pages before it are inserted), or while
\* closing the status row.  Then the catch of lines 342-369.
generateVectorsFail ==
  /\ UNCHANGED notDoc
  /\ RowExists
  /\ pc = "generateVectors"
  /\ Begin("generateVectors")
  /\ Outside
  /\ \E point \in {"create", "insert", "close"} :
     \E k \in 1..Len(textPages) :
       /\ point = "create" => k = 1
       /\ point = "insert" => ~Blank(textPages[k].text)
       /\ broken' => point = "insert" /\ \A i \in 1..(k - 1) : Blank(textPages[i].text)
       /\ point = "close" => k = Len(textPages)
       /\ procStatus' = ErrorRecord(
              IF point = "create" THEN procStatus
              ELSE Append(procStatus, NewRecord("VECTORIZATION")),
              "VECTORIZATION")
       /\ vectors' = Kept(vectors,
                         CASE point = "create" -> vectors
                           [] point = "insert" ->
                                Inserted(vectors, SubSeq(textPages, 1, k - 1))
                           [] point = "close" -> Inserted(vectors, textPages))
       /\ thrownAt' = [point |-> point, k |-> k]
       /\ UNCHANGED <<documentId, childHandle>>
  /\ SetStatus(<<"ERROR">>)
  /\ Thrown("generateVectors")
  /\ UNCHANGED <<filePath, wfTitle, wfNotes, files, fileIdx, allImagePaths,
                 pageOffset, pages, textPages>>

\* document-processing.ts:376-391, an attempt that returns; the run is over
indexDocumentOk ==
  /\ UNCHANGED notDoc
  /\ UNCHANGED <<thrownAt, documentId, childHandle>>
  /\ RowExists
  /\ pc = "indexDocument"
  /\ Begin("indexDocument")
  /\ Returns
  /\ procStatus' = Append(procStatus,
                          [NewRecord("INDEXING_COMPLETE") EXCEPT !.completed = TRUE])
  /\ SetStatus(<<"READY">>)
  /\ Await("done")
  /\ UNCHANGED <<filePath, wfTitle, wfNotes, files, fileIdx, allImagePaths,
                 pageOffset, pages, textPages, vectors>>

\* an attempt that throws, at the create of the status row or at the update
\* of the document.  Then the catch of lines 392-409.
indexDocumentFail ==
  /\ UNCHANGED notDoc
  /\ UNCHANGED <<thrownAt, documentId, childHandle>>
  /\ RowExists
  /\ pc = "indexDocument"
  /\ Begin("indexDocument")
  /\ Outside
  /\ \E point \in {"create", "update"} :
       /\ broken' => point = "create"
       /\ procStatus' =
         Append(IF point = "create" THEN procStatus
                ELSE Append(procStatus,
                            [NewRecord("INDEXING_COMPLETE") EXCEPT !.completed = TRUE]),
                [NewRecord("INDEXING_COMPLETE") EXCEPT !.error = TRUE])
  /\ SetStatus(<<"ERROR">>)
  /\ Thrown("indexDocument")
  /\ UNCHANGED <<filePath, wfTitle, wfNotes, files, fileIdx, allImagePaths,
                 pageOffset, pages, textPages, vectors>>

Next ==
  \/ fetchEmailHtmlOk \/ fetchEmailHtmlFail
  \/ createDocumentRecordOk \/ createDocumentRecordFail
  \/ convertHtmlToPdfOk \/ convertHtmlToPdfFail
  \/ updateDocumentPathOk \/ updateDocumentPathFail
  \/ startChild
  \/ DocumentProcessingWorkflow
  \/ convertPdfToImagesOk \/ convertPdfToImagesFail
  \/ startOcrProcessingOk \/ startOcrProcessingFail
  \/ \E p \in 1..Len(pages) : extractTextFromPageOk(p)
  \/ \E p \in 1..Len(pages) : extractTextFromPageFail(p)
  \/ PromiseAll
  \/ completeOcrProcessingOk \/ completeOcrProcessingFail
  \/ generateVectorsOk \/ generateVectorsFail
  \/ indexDocumentOk \/ indexDocumentFail

Spec == Init /\ [][Next]_vars

\* ------------------------------------------------- DELETE /api/documents/:id
\* a delete that leaves the rows that refer to the document
NoCascade(rows) == rows

\* FOREIGN KEY (document_id) REFERENCES documents(id) ON DELETE CASCADE
\* (migration.sql:115-119): the rows of the document go with it
Cascade(rows) == <<>>

\* the activities that begin with a statement on the row of the document or
\* on a row that refers to it
RowActivities ==
  {"updateDocumentPath", "convertPdfToImages", "startOcrProcessing",
   "completeOcrProcessing", "generateVectors", "indexDocument"}

\* documents.ts:1048-1088, by the owner, while the run goes on or after it:
\* prisma.documents.delete and the cascade
deleteDocument ==
  /\ UNCHANGED notDoc
  /\ status \notin {"NONE", "DELETED"}
  /\ SetStatus(<<"DELETED">>)
  /\ procStatus' = Cascade(procStatus)
  /\ vectors' = Cascade(vectors)
  /\ UNCHANGED <<filePath, wfTitle, wfNotes, files, pc, fileIdx, allImagePaths,
                 pageOffset, pages, textPages, attempt, waits, failure, failedAt,
                 started, failures, broken, thrownAt, documentId, childHandle>>

\* an attempt of an activity on a deleted document: its first statement
\* throws (the create of a processing_status row violates the foreign key,
\* the update of the document finds no row, findUnique returns null), the
\* statements of its catch throw in the same way, and nothing is written
throwsAfterDelete ==
  /\ UNCHANGED notDoc
  /\ ~RowExists
  /\ pc \in RowActivities
  /\ Begin(pc)
  /\ Thrown(pc)
  /\ UNCHANGED <<status, statusLog, filePath, wfTitle, wfNotes, files, docPart,
                 failures, broken, thrownAt, documentId, childHandle>>

NextDelete == Next \/ deleteDocument \/ throwsAfterDelete

SpecDelete == Init /\ [][NextDelete]_vars

\* ===================================================================
\* Mailbox polling: EmailIngestionSchedulerWorkflow starts one
\* CheckUserEmailsWorkflow per enabled user on every tick of the schedule
\* (every minute, overlap SKIP: app.ts:87-100) and does not wait for them.
\* An activity here is followed to its outcome under the retry policy: it
\* returns, or it has thrown on its last attempt and the workflow, which
\* has no try/catch, fails.
\* ===================================================================
MaxMail == 2        \* messages delivered, to all mailboxes together
MaxRuns == 2        \* CheckUserEmailsWorkflow runs started, over all ticks
MaxTicks == MaxRuns \* ticks of the schedule

\* no document is being processed
DocIdle ==
  /\ status = "NONE"
  /\ statusLog = <<"NONE">>
  /\ filePath = "none"
  /\ wfTitle = "T"
  /\ wfNotes = ""
  /\ files = <<>>
  /\ pc = "idle"
  /\ fileIdx = 1
  /\ allImagePaths = <<>>
  /\ pageOffset = 0
  /\ pages = <<>>
  /\ textPages = <<>>
  /\ attempt = 1
  /\ waits = <<>>
  /\ procStatus = <<>>
  /\ vectors = <<>>
  /\ failure = "none"
  /\ failedAt = "none"
  /\ started = <<>>
  /\ failures = 0
  /\ broken = FALSE
  /\ thrownAt = [point |-> "none", k |-> 0]
  /\ documentId = "none"
  /\ childHandle = <<>>
  /\ temporal = NoRuns

InitMail == DocIdle /\ MailIdle /\ SearchIdle

RECURSIVE Sum(_, _)
\* sum of f over the set S
Sum(f, S) ==
  IF S = {} THEN 0
  ELSE LET x == CHOOSE y \in S : TRUE IN f[x] + Sum(f, S \ {x})

RECURSIVE Ascending(_)
\* the elements of a set of numbers in ascending order
Ascending(S) ==
  IF S = {} THEN <<>>
  ELSE LET m == CHOOSE x \in S : \A y \in S : x <= y
       IN <<m>> \o Ascending(S \ {m})

\* a list, last element first
Reversed(s) == [i \in 1..Len(s) |-> s[Len(s) + 1 - i]]

\* the answers of the server to client.fetch(`${from}:*`, {uid, envelope})
\* (email-processing.ts:89): the call passes no options, so the range counts
\* sequence numbers, the positions of the messages of the folder in
\* ascending order of uid, and * is the last message, so that from:* past
\* the end of the folder is the last message, or is refused by the server
\* as an invalid message set. The untagged FETCH responses arrive in the
\* order the server chooses: two orders are followed, that of the sequence
\* numbers and its reverse
fetch(box, from) ==
  LET n == Cardinality(box)
      bySeq == Ascending(box)
      answered == SubSeq(bySeq, Min(from, n), n)
  IN IF n = 0 THEN {<<>>}
     ELSE {answered, Reversed(answered)}
          \cup (IF from > n THEN {<<>>} ELSE {})

\* the lists getUserEmails can return (email-processing.ts:77-111): of the
\* messages the server answers with, those with uid > imap_last_uid, all of
\* them when imap_last_uid is null or 0, in the order they arrived in; the
\* list is not sorted
getUserEmails(imap_last_uid, box) ==
  LET searchCriteria == IF imap_last_uid # 0 THEN imap_last_uid + 1 ELSE 1
  IN {SelectSeq(messages, LAMBDA uid : imap_last_uid = 0 \/ uid > imap_last_uid) :
        messages \in fetch(box, searchCriteria)}

\* the first uid of the batch
FirstOf(emails) == emails[1]

\* Math.max(...emails.map(e => e.uid)) (part_006:66)
MathMax(emails) ==
  CHOOSE x \in Range(emails) : \A y \in Range(emails) : y <= x

\* a child that fails fails its parent as well
FailsParent(s) == [s EXCEPT !.pc = "failed"]

\* what the failure of a CheckUserEmailsWorkflow run does to the scheduler
\* run that started it: nothing, the scheduler awaits the start of the child
\* and never its result, and the child is started with
\* ParentClosePolicy.ABANDON (part_006:33-38)
OnChildFailure(s) == s

\* a message arrives; uids are handed out in ascending order
Deliver(u) ==
  /\ Sum([v \in Users |-> Cardinality(mailbox[v])], Users) < MaxMail
  /\ mailbox' = [mailbox EXCEPT ![u] = @ \cup {Cardinality(@) + 1}]
  /\ UNCHANGED <<notMail, lastUid, sched, runs, children>>

\* a tick of the schedule starts the scheduler workflow, unless the run of
\* the tick before is still open (overlap SKIP)
EmailIngestionSchedulerWorkflow ==
  /\ sched.pc \in {"idle", "done", "failed"}
  /\ sched.tick < MaxTicks
  /\ sched' = [pc |-> "getAllEnabledUsers", users |-> <<>>, idx |-> 1,
               tick |-> sched.tick + 1]
  /\ UNCHANGED <<notMail, lastUid, mailbox, runs, children>>

\* the lists of users a findMany({where: {imap_enabled: true}}) can return:
\* imap_enabled is set and cleared by the settings API between ticks
EnabledUsers == {<<>>, <<"a">>, <<"b">>, <<"a", "b">>}

\* part_006:28-31, email-processing.ts:29-36
getAllEnabledUsersOk ==
  /\ sched.pc = "getAllEnabledUsers"
  /\ \E us \in EnabledUsers :
       /\ Len(runs) + Len(us) <= MaxRuns
       /\ sched' = [sched EXCEPT !.users = us,
                                 !.pc = IF Len(us) > 0 THEN "startChild" ELSE "done"]
  /\ UNCHANGED <<notMail, lastUid, mailbox, runs, children>>

getAllEnabledUsersFail ==
  /\ sched.pc = "getAllEnabledUsers"
  /\ sched' = [sched EXCEPT !.pc = "failed"]
  /\ UNCHANGED <<notMail, lastUid, mailbox, runs, children>>

\* part_006:32-39: the child of the next user is started
startCheckUserEmailsOk ==
  /\ sched.pc = "startChild"
  /\ runs' = Append(runs, [user |-> sched.users[sched.idx], tick |-> sched.tick,
                           pc |-> "getUserEmails", emails |-> <<>>, idx |-> 1,
                           dispatched |-> <<>>, wrote |-> FALSE])
  /\ sched' = [sched EXCEPT !.idx = @ + 1,
                            !.pc = IF sched.idx < Len(sched.users)
                                   THEN "startChild" ELSE "done"]
  /\ UNCHANGED <<notMail, lastUid, mailbox, children>>

\* the start of the child is refused: the scheduler fails, in the loop
startCheckUserEmailsFail ==
  /\ sched.pc = "startChild"
  /\ sched' = [sched EXCEPT !.pc = "failed"]
  /\ UNCHANGED <<notMail, lastUid, mailbox, runs, children>>

\* the run r fails: an await of it has thrown
RunFails(r) ==
  /\ runs' = [runs EXCEPT ![r].pc = "failed"]
  /\ sched' = OnChildFailure(sched)

\* part_006:48, email-processing.ts:41-118
getUserEmailsOk(r) ==
  /\ runs[r].pc = "getUserEmails"
  /\ \E emails \in getUserEmails(lastUid[runs[r].user], mailbox[runs[r].user]) :
       runs' = [runs EXCEPT ![r].emails = emails,
                            ![r].pc = IF Len(emails) > 0 THEN "startChild"
                                      ELSE "done"]
  /\ UNCHANGED <<notMail, lastUid, mailbox, sched, children>>

getUserEmailsFail(r) ==
  /\ runs[r].pc = "getUserEmails"
  /\ RunFails(r)
  /\ UNCHANGED <<notMail, lastUid, mailbox, children>>

\* part_006:56-63: the child of the next message is started, under the
\* workflow id email-doc-<userId>-<uid>; an id of an open run is refused
startEmailDocumentProcessingOk(r) ==
  /\ runs[r].pc = "startChild"
  /\ LET u == runs[r].user
         m == runs[r].emails[runs[r].idx]
     IN /\ <<u, m>> \notin children
        /\ children' = children \cup {<<u, m>>}
        /\ runs' = [runs EXCEPT ![r].dispatched = Append(@, m),
                                ![r].idx = @ + 1,
                                ![r].pc = IF runs[r].idx < Len(runs[r].emails)
                                          THEN "startChild"
                                          ELSE "updateImapLastUid"]
  /\ UNCHANGED <<notMail, lastUid, mailbox, sched>>

\* the start is refused (the id is that of an open run, the server cannot
\* be reached): startChild throws and the run fails at line 57
startEmailDocumentProcessingFail(r) ==
  /\ runs[r].pc = "startChild"
  /\ RunFails(r)
  /\ UNCHANGED <<notMail, lastUid, mailbox, children>>

\* createDocumentRecord(userId, subject) (email-processing.ts:276-294): a new
\* row of documents. Nothing of the row tells the message it was made from;
\* the model keeps it, and keeps the rows as a bag, rows of one message
\* differing in their id only
createEmailDocument(documents, u, m) ==
  documents (+) SetToBag({[user_id |-> u, uid |-> m]})

\* the EmailDocumentProcessingWorkflow run of a message is over
\* (part_006:104-140), completed or failed, and its workflow id is free
\* again. The run followed is one that got as far as createDocumentRecord
\* (line 113): its Document exists from then on, whatever came after
EmailDocumentProcessingCloses(u, m) ==
  /\ <<u, m>> \in children
  /\ children' = children \ {<<u, m>>}
  /\ db' = [db EXCEPT !.documents = createEmailDocument(@, u, m)]
  /\ UNCHANGED <<docVars, args, result, temporal, lastUid, mailbox, sched, runs>>

\* part_006:65-68, email-processing.ts:317-325
updateImapLastUidOk(r) ==
  /\ runs[r].pc = "updateImapLastUid"
  /\ lastUid' = [lastUid EXCEPT ![runs[r].user] = MathMax(runs[r].emails)]
  /\ runs' = [runs EXCEPT ![r].wrote = TRUE, ![r].pc = "done"]
  /\ UNCHANGED <<notMail, mailbox, sched, children>>

updateImapLastUidFail(r) ==
  /\ runs[r].pc = "updateImapLastUid"
  /\ RunFails(r)
  /\ UNCHANGED <<notMail, lastUid, mailbox, children>>

NextMail ==
  \/ \E u \in Users : Deliver(u)
  \/ EmailIngestionSchedulerWorkflow
  \/ getAllEnabledUsersOk \/ getAllEnabledUsersFail
  \/ startCheckUserEmailsOk \/ startCheckUserEmailsFail
  \/ \E r \in 1..Len(runs) : getUserEmailsOk(r)
  \/ \E r \in 1..Len(runs) : getUserEmailsFail(r)
  \/ \E r \in 1..Len(runs) : startEmailDocumentProcessingOk(r)
  \/ \E r \in 1..Len(runs) : startEmailDocumentProcessingFail(r)
  \/ \E u \in Users, m \in 1..MaxMail : EmailDocumentProcessingCloses(u, m)
  \/ \E r \in 1..Len(runs) : updateImapLastUidOk(r)
  \/ \E r \in 1..Len(runs) : updateImapLastUidFail(r)

SpecMail == InitMail /\ [][NextMail]_vars

\* ----------------------------------------------- getUserEmails, by itself
MaxUid == 4   \* largest uid of a folder, largest imap_last_uid

\* a call of getUserEmails for a user whose imap_last_uid and folder are
\* any: messages are deleted from a folder as well as delivered to it, so
\* the uids of a folder have gaps and the cursor can lie past the last
InitFetch ==
  /\ DocIdle /\ MailIdle
  /\ \E last \in 0..MaxUid, box \in SUBSET (1..MaxUid) :
       args = [fn |-> "getUserEmails", imap_last_uid |-> last, folder |-> box]
  /\ result = [fn |-> "none"]
  /\ db = [documents |-> <<>>, vectors |-> <<>>]

getUserEmailsCall ==
  /\ args.fn = "getUserEmails"
  /\ result.fn = "none"
  /\ \E emailsToProcess \in getUserEmails(args.imap_last_uid, args.folder) :
       result' = [fn |-> "getUserEmails", emails |-> emailsToProcess]
  /\ UNCHANGED <<docVars, mailVars, temporal, args, db>>

NextFetch == getUserEmailsCall

SpecFetch == InitFetch /\ [][NextFetch]_vars

\* ===================================================================
\* The vectorizer (server/utils/embeddings.ts:22-94,
\* server/utils/sparse-vectors.ts:11-87).  A text is a sequence of
\* characters.  Real numbers are kept in thousandths.
\* ===================================================================
MaxWords == 4       \* words of a text handed to the vectorizer

Thousand == 1000    \* the scale of the real numbers

Letters ==
  {"a", "b", "c", "d", "e", "f", "g", "h", "i", "j", "k", "l", "m", "n", "o",
   "p", "q", "r", "s", "t", "u", "v", "w", "x", "y", "z"}

Capitals == {"A", "P"}

\* String.prototype.charCodeAt
charCodeAt(c) ==
  CASE c = "a" -> 97 [] c = "b" -> 98 [] c = "c" -> 99 [] c = "d" -> 100
    [] c = "e" -> 101 [] c = "f" -> 102 [] c = "g" -> 103 [] c = "h" -> 104
    [] c = "i" -> 105 [] c = "j" -> 106 [] c = "k" -> 107 [] c = "l" -> 108
    [] c = "m" -> 109 [] c = "n" -> 110 [] c = "o" -> 111 [] c = "p" -> 112
    [] c = "q" -> 113 [] c = "r" -> 114 [] c = "s" -> 115 [] c = "t" -> 116
    [] c = "u" -> 117 [] c = "v" -> 118 [] c = "w" -> 119 [] c = "x" -> 120
    [] c = "y" -> 121 [] c = "z" -> 122 [] c = "A" -> 65 [] c = "P" -> 80
    [] c = " " -> 32 [] c = "." -> 46

\* String.prototype.toLowerCase, character by character
toLowerCase(t) ==
  [i \in 1..Len(t) |-> CASE t[i] = "A" -> "a" [] t[i] = "P" -> "p" [] OTHER -> t[i]]

RECURSIVE TrimStart(_)
TrimStart(t) ==
  IF t # <<>> /\ Head(t) = " " THEN TrimStart(Tail(t)) ELSE t

RECURSIVE TrimEnd(_)
TrimEnd(t) ==
  IF t # <<>> /\ t[Len(t)] = " " THEN TrimEnd(SubSeq(t, 1, Len(t) - 1)) ELSE t

\* String.prototype.trim on a sequence of characters
TrimText(t) == TrimEnd(TrimStart(t))

\* \w of a regular expression
IsWordChar(c) == c \in Letters \cup Capitals

RECURSIVE Match(_, _, _)
\* the maximal runs of word characters of t, cur being the run begun
Match(t, cur, acc) ==
  IF t = <<>> THEN (IF cur = <<>> THEN acc ELSE Append(acc, cur))
  ELSE IF IsWordChar(Head(t)) THEN Match(Tail(t), Append(cur, Head(t)), acc)
  ELSE Match(Tail(t), <<>>, IF cur = <<>> THEN acc ELSE Append(acc, cur))

\* text.match(/\b\w+\b/g) || []
MatchWords(t) == Match(t, <<>>, <<>>)

\* sparse-vectors.ts:11-16
STOP_WORDS ==
  {<<"a">>, <<"a", "n">>, <<"a", "n", "d">>, <<"a", "r", "e">>, <<"a", "s">>,
   <<"a", "t">>, <<"b", "e">>, <<"b", "y">>, <<"f", "o", "r">>,
   <<"f", "r", "o", "m">>, <<"h", "a", "s">>, <<"h", "e">>, <<"i", "n">>,
   <<"i", "s">>, <<"i", "t">>, <<"i", "t", "s">>, <<"o", "f">>, <<"o", "n">>,
   <<"t", "h", "a", "t">>, <<"t", "h", "e">>, <<"t", "o">>, <<"w", "a", "s">>,
   <<"w", "i", "l", "l">>, <<"w", "i", "t", "h">>, <<"t", "h", "e">>,
   <<"t", "h", "i", "s">>, <<"b", "u", "t">>, <<"t", "h", "e", "y">>,
   <<"h", "a", "v", "e">>, <<"h", "a", "d">>, <<"w", "h", "a", "t">>,
   <<"w", "h", "e", "n">>, <<"w", "h", "e", "r", "e">>, <<"w", "h", "o">>,
   <<"w", "h", "i", "c", "h">>, <<"w", "h", "y">>, <<"h", "o", "w">>}

\* Math.log(n / d) in thousandths, for the quotients that occur
MathLog(n, d) ==
  LET g == CHOOSE k \in 1..d : n % k = 0 /\ d % k = 0
                               /\ \A j \in (k + 1)..d : n % j # 0 \/ d % j # 0
      q == <<n \div g, d \div g>>
  IN CASE
       q = <<2, 1>> -> 693
    [] q = <<3, 1>> -> 1099
    [] q = <<3, 2>> -> 405
    [] q = <<4, 1>> -> 1386
    [] q = <<4, 3>> -> 288
    [] q = <<5, 1>> -> 1609
    [] q = <<5, 2>> -> 916
    [] q = <<5, 3>> -> 511
    [] q = <<5, 4>> -> 223
    [] q = <<6, 1>> -> 1792
    [] q = <<6, 5>> -> 182
    [] q = <<7, 1>> -> 1946
    [] q = <<7, 2>> -> 1253
    [] q = <<7, 3>> -> 847
    [] q = <<7, 4>> -> 560
    [] q = <<7, 5>> -> 336
    [] q = <<7, 6>> -> 154
    [] q = <<8, 1>> -> 2079
    [] q = <<8, 3>> -> 981
    [] q = <<8, 5>> -> 470
    [] q = <<9, 1>> -> 2197
    [] q = <<9, 2>> -> 1504
    [] q = <<9, 4>> -> 811
    [] q = <<9, 5>> -> 588
    [] q = <<10, 1>> -> 2303
    [] q = <<10, 3>> -> 1204
    [] q = <<11, 1>> -> 2398
    [] q = <<11, 2>> -> 1705
    [] q = <<11, 3>> -> 1299
    [] q = <<11, 4>> -> 1012
    [] q = <<11, 5>> -> 788
    [] q = <<11, 6>> -> 606
    [] q = <<12, 1>> -> 2485
    [] q = <<12, 5>> -> 875
    [] q = <<13, 1>> -> 2565
    [] q = <<13, 2>> -> 1872
    [] q = <<13, 3>> -> 1466
    [] q = <<13, 4>> -> 1179
    [] q = <<13, 5>> -> 956
    [] q = <<13, 6>> -> 773

\* words.filter(word => word.length > 2 && !STOP_WORDS.has(word))
filteredWords(words) ==
  SelectSeq(words, LAMBDA w : Len(w) > 2 /\ w \notin STOP_WORDS)

\* sparse-vectors.ts:45-50
termFrequency(fw) ==
  [w \in Range(fw) |-> Cardinality({i \in 1..Len(fw) : fw[i] = w})]

\* sparse-vectors.ts:56-75: Math.log(1 + count) * Math.log(1 + total / count)
tfIdf(count, total) ==
  (MathLog(1 + count, 1) * MathLog(count + total, count)) \div Thousand

\* the largest element of a non-empty set of numbers
SetMax(S) == CHOOSE x \in S : \A y \in S : y <= x

\* the weights as they are after the loop of lines 65-75
rawWeights(text) ==
  LET fw == filteredWords(MatchWords(TrimText(toLowerCase(text))))
      tf == termFrequency(fw)
  IN [w \in DOMAIN tf |-> tfIdf(tf[w], Len(fw))]

\* sparse-vectors.ts:78-84: Math.max(...Object.values(sparseVector), 1) and
\* the division of every weight by it
normalize(sv) ==
  LET maxWeight == SetMax({sv[w] : w \in DOMAIN sv} \cup {Thousand})
  IN [w \in DOMAIN sv |-> (sv[w] * Thousand) \div maxWeight]

\* sparse-vectors.ts:27-87; the map is a function from tokens to weights
generateSparseVector(text) ==
  IF TrimText(toLowerCase(text)) = <<>> THEN <<>>
  ELSE normalize(rawWeights(text))

\* ------------------------------------------------------------ dense vector
vectorSize == 1536

Word16 == 65536     \* a 32-bit integer is kept as <<high, low>> 16-bit halves

\* hash = ((hash << 5) - hash) + char; hash = hash & hash
\* (embeddings.ts:89-90): 31 * hash + char as a 32-bit integer
hashStep(h, char) ==
  LET low == 31 * h[2] + char
      high == 31 * h[1] + (low \div Word16)
  IN <<high % Word16, low % Word16>>

RECURSIVE hashFrom(_, _)
hashFrom(h, str) ==
  IF str = <<>> THEN h
  ELSE hashFrom(hashStep(h, charCodeAt(Head(str))), Tail(str))

\* embeddings.ts:84-94
simpleHash(str, seed) == hashFrom(<<0, seed>>, str)

\* Math.abs(hashSeed) % vectorSize (embeddings.ts:57)
hashPosition(h) ==
  LET unsigned == ((h[1] % vectorSize) * (Word16 % vectorSize) + h[2]) % vectorSize
      two32 == ((Word16 % vectorSize) * (Word16 % vectorSize)) % vectorSize
  IN IF h[1] >= Word16 \div 2
     THEN (two32 + vectorSize - unsigned) % vectorSize
     ELSE unsigned

RECURSIVE SqrtBetween(_, _, _)
\* the largest r in lo..hi with r * r <= x
SqrtBetween(x, lo, hi) ==
  IF lo = hi THEN lo
  ELSE LET mid == (lo + hi + 1) \div 2
       IN IF mid * mid <= x THEN SqrtBetween(x, mid, hi)
          ELSE SqrtBetween(x, lo, mid - 1)

\* Math.sqrt, rounded down
MathSqrt(x) == SqrtBetween(x, 0, 46340)

\* the increments of the loops of embeddings.ts:45-62, as <<position,
\* weight>>; the weight 1 - i / (2 * words.length) is kept as its numerator
\* 2 * words.length - i, the same denominator for the whole vector
hits(words) ==
  LET n == Len(words)
      counted == {i \in 1..n : Len(words[i]) >= 2}
  IN {<<i, j>> : i \in counted, j \in 0..2}

hitPosition(words, ij) == hashPosition(simpleHash(words[ij[1]], ij[2]))

hitWeight(words, ij) == 2 * Len(words) - (ij[1] - 1)

\* a vector of ones
onesVector == [k \in 0..(vectorSize - 1) |-> 1]

\* new Array(1536).fill(0)
zeroVector == [k \in 0..(vectorSize - 1) |-> 0]

\* embeddings.ts:22-74; the entries of the vector in thousandths
generateDenseVector(text) ==
  LET words == MatchWords(TrimText(toLowerCase(text)))
      H == hits(words)
      at == [ij \in H |-> hitPosition(words, ij)]
      P == {at[ij] : ij \in H}
      vector == [k \in P |-> Sum([ij \in H |-> hitWeight(words, ij)],
                                 {ij \in H : at[ij] = k})]
      magnitudeSq == Sum([k \in P |-> vector[k] * vector[k]], P)
      unit == [k \in P |->
                 MathSqrt((vector[k] * vector[k] * Thousand * Thousand)
                          \div magnitudeSq)]
  IN IF TrimText(toLowerCase(text)) = <<>> THEN zeroVector
     ELSE [k \in 0..(vectorSize - 1) |-> IF k \in P THEN unit[k] ELSE zeroVector[k]]

\* ------------------------------------------------- calls of the vectorizer
\* the words the texts are made of
Vocabulary ==
  {<<"a", "p", "p", "l", "e">>, <<"P", "e", "a", "r">>, <<"t", "h", "e">>,
   <<"a", "b">>}

RECURSIVE JoinWords(_)
\* the words of a list, one space between two of them
JoinWords(ws) ==
  IF ws = <<>> THEN <<>>
  ELSE IF Len(ws) = 1 THEN ws[1]
  ELSE ws[1] \o <<" ">> \o JoinWords(Tail(ws))

\* the texts handed to the vectorizer: up to MaxWords words, and texts
\* without a word
VectorTexts ==
  {JoinWords(ws) : ws \in SeqsUpTo(Vocabulary, MaxWords)}
    \cup {<<" ">>, <<" ", " ">>, <<".">>, <<" ", "a", "p", "p", "l", "e", " ">>}

InitVector ==
  /\ DocIdle /\ MailIdle
  /\ \E t \in VectorTexts : args = [fn |-> "vectorize", text |-> t]
  /\ result = [fn |-> "none"]
  /\ db = [documents |-> <<>>, vectors |-> <<>>]

\* two calls of generateSparseVector(text), one after the other
generateSparseVectorCall ==
  /\ args.fn = "vectorize"
  /\ result.fn = "none"
  /\ result' = [fn |-> "generateSparseVector",
                value |-> generateSparseVector(args.text),
                again |-> generateSparseVector(args.text)]
  /\ UNCHANGED <<docVars, mailVars, temporal, args, db>>

\* two calls of generateDenseVector(text), one after the other
generateDenseVectorCall ==
  /\ args.fn = "vectorize"
  /\ result.fn = "none"
  /\ result' = [fn |-> "generateDenseVector",
                value |-> generateDenseVector(args.text),
                again |-> generateDenseVector(args.text)]
  /\ UNCHANGED <<docVars, mailVars, temporal, args, db>>

NextVector == generateSparseVectorCall \/ generateDenseVectorCall

SpecVector == InitVector /\ [][NextVector]_vars

\* ===================================================================
\* extractSnippet (server/utils/embeddings.ts:332-380)
\* ===================================================================
PadSlack == 1       \* lengths of padding tried around 0 and snippetRadius

snippetRadius == 150

Ellipsis == <<".", ".", ".">>

\* String.prototype.substring(from, to), 0 <= from <= to
substring(t, from, to) ==
  SubSeq(t, from + 1, IF to < Len(t) THEN to ELSE Len(t))

\* String.prototype.indexOf: the first position (from 0) at which term
\* occurs in t, -1 when there is none
indexOf(t, term) ==
  LET at == {i \in 0..(Len(t) - Len(term)) :
               SubSeq(t, i + 1, i + Len(term)) = term}
  IN IF at = {} THEN 0 - 1 ELSE CHOOSE i \in at : \A j \in at : i <= j

RECURSIVE firstMatch(_, _, _)
\* the loop of lines 351-357 over the terms left, m being <<matchPosition,
\* matchLength>> so far
firstMatch(t, terms, m) ==
  IF terms = <<>> THEN m
  ELSE LET position == indexOf(t, Head(terms))
       IN firstMatch(t, Tail(terms),
                     IF position # 0 - 1 /\ (m[1] = 0 - 1 \/ position < m[1])
                     THEN <<position, Len(Head(terms))>> ELSE m)

\* lines 344 and 361: the beginning of the text
beginning(fullText) ==
  substring(fullText, 0, snippetRadius * 2)
    \o (IF Len(fullText) > snippetRadius * 2 THEN Ellipsis ELSE <<>>)

\* lines 332-380; the locals matchPosition, snippetStart and snippetEnd are
\* returned with the snippet
extractSnippet(fullText, query) ==
  LET queryTerms == MatchWords(toLowerCase(query))
      m == firstMatch(toLowerCase(fullText), queryTerms, <<0 - 1, 0>>)
      matchPosition == m[1]
      matchLength == m[2]
      snippetStart == IF matchPosition - snippetRadius > 0
                      THEN matchPosition - snippetRadius ELSE 0
      snippetEnd == Min(Len(fullText), matchPosition + matchLength + snippetRadius)
  IN IF Len(queryTerms) = 0 \/ fullText = <<>> \/ matchPosition = 0 - 1
     THEN [snippet |-> beginning(fullText), matchPosition |-> 0 - 1,
           snippetStart |-> 0, snippetEnd |-> Min(Len(fullText), snippetRadius * 2)]
     ELSE [snippet |-> TrimText(
                         (IF snippetStart > 0 THEN Ellipsis ELSE <<>>)
                         \o substring(fullText, snippetStart, snippetEnd)
                         \o (IF snippetEnd < Len(fullText) THEN Ellipsis ELSE <<>>)),
           matchPosition |-> matchPosition,
           snippetStart |-> snippetStart, snippetEnd |-> snippetEnd]

\* n times the character c
Pad(c, n) == [i \in 1..n |-> c]

PadLengths ==
  (0..PadSlack) \cup ((snippetRadius - PadSlack)..(snippetRadius + PadSlack))

\* what stands between the paddings of a page text
SnippetCores ==
  {<<>>, <<"a", "p", "p", "l", "e">>, <<" ", "P", "e", "a", "r", " ">>,
   <<"P", "e", "a", "r", " ", "a", "p", "p", "l", "e">>,
   <<"a", "b", " ", "a", "p", "p", "l", "e">>}

\* the page texts: a core between two runs of dots
SnippetTexts ==
  {Pad(".", k) \o c \o Pad(".", n) : k \in PadLengths, n \in PadLengths,
                                     c \in SnippetCores}

SnippetQueries ==
  {<<>>, <<".">>, <<"a", "p", "p", "l", "e">>, <<"P", "e", "a", "r">>,
   <<"a", "p", "p", "l", "e", " ", "p", "e", "a", "r">>, <<"a", "b">>,
   <<"a", "p", "p", "l", "e", " ", "a", "b">>}

InitSnippet ==
  /\ DocIdle /\ MailIdle
  /\ \E t \in SnippetTexts, q \in SnippetQueries :
       args = [fn |-> "extractSnippet", fullText |-> t, query |-> q]
  /\ result = [fn |-> "none"]
  /\ db = [documents |-> <<>>, vectors |-> <<>>]

extractSnippetCall ==
  /\ args.fn = "extractSnippet"
  /\ result.fn = "none"
  /\ result' = [fn |-> "extractSnippet",
                value |-> extractSnippet(args.fullText, args.query)]
  /\ UNCHANGED <<docVars, mailVars, temporal, args, db>>

NextSnippet == extractSnippetCall

SpecSnippet == InitSnippet /\ [][NextSnippet]_vars

\* ===================================================================
\* hybridSearch (server/utils/embeddings.ts:188-321) and GET /search
\* (server/api/documents.ts:312-392)
\* ===================================================================
MaxRows == 3        \* rows of the vectors table

Limit == 100        \* LIMIT 100 of the query (embeddings.ts:283)

denseWeight == 600  \* 0.6, in thousandths (embeddings.ts:301)

sparseWeight == 400 \* 0.4, in thousandths (embeddings.ts:301)

\* the entries of a dense vector that are not 0
support(v) == {k \in DOMAIN v : v[k] # 0}

\* the operator <-> of pgvector: the Euclidean distance, in thousandths
denseDistance(u, v) ==
  LET K == support(u) \cup support(v)
  IN MathSqrt(Sum([k \in K |-> (u[k] - v[k]) * (u[k] - v[k])], K))

\* sparse-vectors.ts:137-155; the products in thousandths
sparseDotProduct(vec1, vec2) ==
  LET smallerVec == IF Cardinality(DOMAIN vec1) <= Cardinality(DOMAIN vec2)
                    THEN vec1 ELSE vec2
      largerVec == IF Cardinality(DOMAIN vec1) <= Cardinality(DOMAIN vec2)
                   THEN vec2 ELSE vec1
      shared == DOMAIN smallerVec \cap DOMAIN largerVec
  IN Sum([t \in shared |-> (smallerVec[t] * largerVec[t]) \div Thousand], shared)

\* a WHERE clause without the condition on the owner
WhereOfAnyUser(d, userId, filters) ==
  /\ d.status = "READY"
  /\ filters.date_from # 0 => d.upload_date >= filters.date_from
  /\ filters.date_to # 0 => d.upload_date <= filters.date_to
  /\ filters.document_type # "" => d.file_type = filters.document_type
  /\ filters.tags # {} => d.tags \cap filters.tags # {}

\* the WHERE clause of the query (embeddings.ts:222-261) for row v of the
\* vectors table joined with its document d
Where(d, userId, filters) ==
  /\ d.user_id = userId
  /\ d.status = "READY"
  /\ filters.date_from # 0 => d.upload_date >= filters.date_from
  /\ filters.date_to # 0 => d.upload_date <= filters.date_to
  /\ filters.document_type # "" => d.file_type = filters.document_type
  /\ filters.tags # {} => d.tags \cap filters.tags # {}

\* one row for every document, whatever its distance
rankOneOfAny(ranked_vectors) ==
  LET D == {v.document_id : v \in ranked_vectors}
  IN {{f[d] : d \in D} :
        f \in {g \in [D -> ranked_vectors] : \A d \in D : g[d].document_id = d}}

\* the rows of rank 1 when rows of equal distance share their rank
rankOneWithTies(ranked_vectors) ==
  {{v \in ranked_vectors :
      \A w \in ranked_vectors :
        w.document_id = v.document_id => v.dense_distance <= w.dense_distance}}

\* ROW_NUMBER() OVER (PARTITION BY document_id ORDER BY distance) ... WHERE
\* rank = 1 (embeddings.ts:219, 281): one row of least distance for every
\* document; which one, among rows of equal distance, the database decides.
\* The sets of rows the clause can leave.
rankOne(ranked_vectors) ==
  LET D == {v.document_id : v \in ranked_vectors}
      best(d) == {v \in ranked_vectors :
                    /\ v.document_id = d
                    /\ \A w \in ranked_vectors :
                         w.document_id = d => v.dense_distance <= w.dense_distance}
  IN {{f[d] : d \in D} :
        f \in {g \in [D -> ranked_vectors] : \A d \in D : g[d] \in best(d)}}

RECURSIVE orderBy(_)
\* ORDER BY dense_distance (embeddings.ts:282): the orders the rows S can
\* come in, rows of equal distance in any order
orderBy(S) ==
  IF S = {} THEN {<<>>}
  ELSE UNION {{<<v>> \o rest : rest \in orderBy(S \ {v})} :
                v \in {x \in S : \A y \in S : x.dense_distance <= y.dense_distance}}

RECURSIVE insertByScore(_, _)
\* r put after the results of a score not below its own
insertByScore(sorted, r) ==
  IF sorted = <<>> THEN <<r>>
  ELSE IF Head(sorted).relevance_score >= r.relevance_score
       THEN <<Head(sorted)>> \o insertByScore(Tail(sorted), r)
       ELSE <<r>> \o sorted

RECURSIVE sortAscending(_)
\* the results by ascending score
sortAscending(results) ==
  IF results = <<>> THEN <<>>
  ELSE LET least == CHOOSE i \in 1..Len(results) :
                      \A j \in 1..Len(results) :
                        results[i].relevance_score <= results[j].relevance_score
       IN <<results[least]>>
            \o sortAscending(SubSeq(results, 1, least - 1)
                             \o SubSeq(results, least + 1, Len(results)))

RECURSIVE sort(_)
\* results.sort((a, b) => b.relevance_score - a.relevance_score)
\* (embeddings.ts:318); Array.prototype.sort is stable
sort(results) ==
  IF results = <<>> THEN <<>>
  ELSE insertByScore(sort(SubSeq(results, 1, Len(results) - 1)),
                     results[Len(results)])

\* embeddings.ts:290-315 for one row of the answer of the database
searchResult(row, query, querySparseVector) ==
  LET denseScore == IF Thousand - row.dense_distance \div 2 > 0
                    THEN Thousand - row.dense_distance \div 2 ELSE 0
      sparseScore == sparseDotProduct(querySparseVector, row.sparse_vec)
  IN [document_id |-> row.document_id,
      page_number |-> row.page_number,
      dense_distance |-> row.dense_distance,
      relevance_score |-> (denseWeight * denseScore + sparseWeight * sparseScore)
                            \div Thousand,
      snippet |-> extractSnippet(row.text_content, query).snippet]

RECURSIVE mapRows(_, _, _)
\* rawResults.rows.map(row => ...) (embeddings.ts:290)
mapRows(rows, query, querySparseVector) ==
  IF rows = <<>> THEN <<>>
  ELSE <<searchResult(Head(rows), query, querySparseVector)>>
         \o mapRows(Tail(rows), query, querySparseVector)

\* the rows of the CTE ranked_vectors, before the ranks (embeddings.ts:203-261):
\* the rows of vectors joined with their documents that pass the WHERE clause,
\* with their distance from the query. The stored vectors of a row are the
\* ones generateVectors made of its text (document-processing.ts:303-325)
ranked_vectors(queryDenseVector, userId, filters, tables) ==
  LET rows == tables.vectors
      cands == {i \in DOMAIN rows :
                  /\ rows[i].document_id \in DOMAIN tables.documents
                  /\ Where(tables.documents[rows[i].document_id], userId, filters)}
  IN {[vector_id |-> rows[i].id,
       document_id |-> rows[i].document_id,
       page_number |-> rows[i].page_number,
       text_content |-> rows[i].text_content,
       sparse_vec |-> generateSparseVector(rows[i].text_content),
       dense_distance |-> denseDistance(generateDenseVector(rows[i].text_content),
                                        queryDenseVector)] : i \in cands}

\* hybridSearch(query, userId, filters) on the tables of db: the values it
\* can return, one for every way the database breaks the ties of distance
hybridSearch(query, userId, filters, tables) ==
  LET queryDenseVector == generateDenseVector(query)
      querySparseVector == generateSparseVector(query)
      ranked == ranked_vectors(queryDenseVector, userId, filters, tables)
      ordered == UNION {orderBy(S) : S \in rankOne(ranked)}
      rawResults == {SubSeq(o, 1, IF Len(o) < Limit THEN Len(o) ELSE Limit) :
                       o \in ordered}
  IN {sort(mapRows(rows, query, querySparseVector)) : rows \in rawResults}

\* !query
isEmpty(query) == query = <<>>

\* !query.trim() (documents.ts:323)
isBlank(query) == TrimText(query) = <<>>

\* Array.prototype.slice(startIndex, endIndex), 0 <= startIndex <= endIndex
slice(arr, startIndex, endIndex) ==
  SubSeq(arr, startIndex + 1, IF endIndex < Len(arr) THEN endIndex ELSE Len(arr))

\* the documents table: d1 of user "a" and READY; d2 of either user, READY or
\* still in processing
DocumentTables ==
  {[d1 |-> [user_id |-> "a", status |-> "READY", upload_date |-> 1,
            file_type |-> "pdf", tags |-> {}],
    d2 |-> [user_id |-> u, status |-> st, upload_date |-> 2,
            file_type |-> "png", tags |-> {"t"}]] :
     <<u, st>> \in {<<"a", "READY">>, <<"b", "READY">>, <<"a", "PROCESSING">>}}

\* the texts of the pages: "apple Pear", "apple", "the ab apple Pear"
PageTexts ==
  <<<<"a", "p", "p", "l", "e", " ", "P", "e", "a", "r">>,
    <<"a", "p", "p", "l", "e">>,
    <<"t", "h", "e", " ", "a", "b", " ", "a", "p", "p", "l", "e", " ",
      "P", "e", "a", "r">>>>

\* the k-th kind of row: its document and its text
rowKind(k) ==
  [document_id |-> IF k <= Len(PageTexts) THEN "d1" ELSE "d2",
   text_content |-> PageTexts[((k - 1) % Len(PageTexts)) + 1]]

\* the vectors tables of at most MaxRows rows, the rows of a table in no
\* order of their pages: d1 has a title, its title/notes page -1 is the row
\* inserted last (updateMetadataVector deletes and inserts it again after an
\* edit) after its pages 0, 1, ..; the pages of d2, which has none, stand
\* in descending order
VectorTables ==
  LET kinds == 1..(2 * Len(PageTexts))
      lists == UNION {[1..n -> kinds] : n \in 0..MaxRows}
      sorted == {l \in lists : \A i \in 1..(Len(l) - 1) : l[i] <= l[i + 1]}
      before(l, i) == Cardinality({j \in 1..(i - 1) :
                        rowKind(l[j]).document_id = rowKind(l[i]).document_id})
      after(l, i) == Cardinality({j \in (i + 1)..Len(l) :
                       rowKind(l[j]).document_id = rowKind(l[i]).document_id})
  IN {[i \in DOMAIN l |->
         [id |-> i,
          document_id |-> rowKind(l[i]).document_id,
          page_number |-> IF rowKind(l[i]).document_id = "d2" THEN after(l, i)
                          ELSE IF after(l, i) = 0 THEN MetadataPage
                          ELSE before(l, i),
          text_content |-> rowKind(l[i]).text_content]] : l \in sorted}

NoFilters == [date_from |-> 0, date_to |-> 0, document_type |-> "", tags |-> {}]

SearchFilters ==
  {NoFilters,
   [NoFilters EXCEPT !.date_from = 2],
   [NoFilters EXCEPT !.date_to = 1],
   [NoFilters EXCEPT !.document_type = "pdf"],
   [NoFilters EXCEPT !.tags = {"t"}],
   [date_from |-> 1, date_to |-> 2, document_type |-> "png", tags |-> {"t"}]}

\* no query, a blank one, "apple pear", "apple"
SearchQueries ==
  {<<>>, <<" ">>, <<"a", "p", "p", "l", "e", " ", "p", "e", "a", "r">>,
   <<"a", "p", "p", "l", "e">>}

\* page and per_page after parseInt(...) || default (documents.ts:350-351)
Paginations == {<<1, 25>>, <<2, 1>>}

\* req.params.id: the documents of the tables and an id of no document
DocumentIds == {"d1", "d2", "d3"}

InitSearch ==
  /\ DocIdle /\ MailIdle
  /\ \/ \E q \in SearchQueries, f \in SearchFilters, p \in Paginations :
          args = [fn |-> "search", userId |-> "a", q |-> q, filters |-> f,
                  page |-> p[1], per_page |-> p[2]]
     \/ \E id \in DocumentIds :
          args = [fn |-> "getVectors", userId |-> "a", id |-> id]
  /\ result = [fn |-> "none"]
  /\ \E d \in DocumentTables, v \in VectorTables :
       db = [documents |-> d, vectors |-> v]

\* GET /api/documents/search (documents.ts:312-392), for an authenticated user
search ==
  /\ args.fn = "search"
  /\ result.fn = "none"
  /\ IF isBlank(args.q)
     THEN result' = [fn |-> "search", status |-> 400, calls |-> <<>>,
                     allResults |-> <<>>, results |-> <<>>, total |-> 0]
     ELSE IF args.page < 1 \/ args.per_page < 1 \/ args.per_page > 100
     THEN result' = [fn |-> "search", status |-> 400, calls |-> <<>>,
                     allResults |-> <<>>, results |-> <<>>, total |-> 0]
     ELSE \E allResults \in hybridSearch(args.q, args.userId, args.filters, db) :
            LET startIndex == (args.page - 1) * args.per_page
                endIndex == startIndex + args.per_page
            IN result' = [fn |-> "search", status |-> 200,
                          calls |-> <<"generateDenseVector", "generateSparseVector",
                                      "pool.query">>,
                          allResults |-> allResults,
                          results |-> IF startIndex >= Len(allResults) THEN <<>>
                                      ELSE slice(allResults, startIndex, endIndex),
                          total |-> Len(allResults)]
  /\ UNCHANGED <<docVars, mailVars, temporal, args, db>>

\* a query for every page of the document, the title/notes page with them
anyPage(page_number) == TRUE

\* where: {page_number: {gte: 0}} (documents.ts:922-924)
pageFilter(page_number) == page_number >= 0

RECURSIVE orderByPage(_)
\* orderBy: {page_number: 'asc'} (documents.ts:926-928): the orders the rows
\* S can come in
orderByPage(S) ==
  IF S = {} THEN {<<>>}
  ELSE UNION {{<<v>> \o rest : rest \in orderByPage(S \ {v})} :
                v \in {x \in S : \A y \in S : x.page_number <= y.page_number}}

\* prisma.vectors.findMany (documents.ts:919-933) and the map of lines
\* 936-939: the answers it can give
findManyVectors(rows, document_id) ==
  LET found == {i \in DOMAIN rows : /\ rows[i].document_id = document_id
                                    /\ pageFilter(rows[i].page_number)}
  IN {[k \in DOMAIN o |-> [pageNumber |-> o[k].page_number, text |-> o[k].text_content]] :
        o \in orderByPage({rows[i] : i \in found})}

\* GET /api/documents/:id/vectors (documents.ts:888-948), for an
\* authenticated user
getVectors ==
  /\ args.fn = "getVectors"
  /\ result.fn = "none"
  /\ IF args.id \notin DOMAIN db.documents
     THEN result' = [fn |-> "getVectors", status |-> 404, body |-> <<>>]
     ELSE IF db.documents[args.id].user_id # args.userId
     THEN result' = [fn |-> "getVectors", status |-> 403, body |-> <<>>]
     ELSE \E pageTexts \in findManyVectors(db.vectors, args.id) :
            result' = [fn |-> "getVectors", status |-> 200, body |-> pageTexts]
  /\ UNCHANGED <<docVars, mailVars, temporal, args, db>>

NextSearch == search \/ getVectors

SpecSearch == InitSearch /\ [][NextSearch]_vars

\* ------------------------------------------------- PUT /api/documents/:id
\* the DELETE statement removes no row
deleteNothing(rows, id) == rows

\* DELETE FROM vectors WHERE document_id = $1 AND page_number = -1
\* (embeddings.ts:468-471)
deleteMetadataVector(rows, id) ==
  SelectSeq(rows, LAMBDA v : ~(v.document_id = id /\ v.page_number = MetadataPage))

\* updateMetadataVector(documentId, title, notes) (embeddings.ts:451-491) on
\* the vectors table; null and '' are both ""
updateMetadataVector(rows, id, title, notes) ==
  LET metadataText == MetadataLines(title, notes)
      deleted == deleteMetadataVector(rows, id)
  IN IF Len(metadataText) > 0
     THEN Append(deleted, [document_id |-> id, page_number |-> MetadataPage,
                           text_content |-> JoinLines(metadataText)])
     ELSE deleted

\* title and notes of req.body: absent, empty, blank, a text
BodyFields == {"undefined", "", " ", "T2"}

\* the rows a vectors table is made of: title/notes pages of d1, written by
\* generateVectors or by an earlier edit, pages 0 and 1 of d1, and the two
\* rows of d2
EditRows ==
  <<[document_id |-> "d1", page_number |-> MetadataPage, text_content |-> "Title: T"],
    [document_id |-> "d1", page_number |-> 0, text_content |-> "txt"],
    [document_id |-> "d1", page_number |-> 1, text_content |-> "txt"],
    [document_id |-> "d2", page_number |-> MetadataPage, text_content |-> "Title: T"],
    [document_id |-> "d2", page_number |-> 0, text_content |-> "txt"]>>

\* the vectors tables of at most MaxRows rows; a row can be there twice (the
\* INSERT of a retried attempt of generateVectors, C22)
EditTables ==
  LET lists == UNION {[1..n -> DOMAIN EditRows] : n \in 0..MaxRows}
      sorted == {l \in lists : \A i \in 1..(Len(l) - 1) : l[i] <= l[i + 1]}
  IN {[i \in DOMAIN l |-> EditRows[l[i]]] : l \in sorted}

\* d1 of user "a", in any state of its processing, and d2 of user "b"
EditDocuments ==
  {[d1 |-> [user_id |-> "a", status |-> st, title |-> t, notes |-> n],
    d2 |-> [user_id |-> "b", status |-> "READY", title |-> "T", notes |-> ""]] :
     st \in {"PROCESSING", "READY"}, t \in {"", "T"}, n \in {"", "N"}}

InitEdit ==
  /\ DocIdle /\ MailIdle
  /\ \E id \in DocumentIds, title \in BodyFields, notes \in BodyFields :
       args = [fn |-> "putDocument", userId |-> "a", id |-> id,
               title |-> title, notes |-> notes]
  /\ result = [fn |-> "none"]
  /\ \E d \in EditDocuments, v \in EditTables : db = [documents |-> d, vectors |-> v]

\* PUT /api/documents/:id (documents.ts:954-1040), for an authenticated
\* user: it returns 200, or a statement has thrown and it returns 500 with
\* what the statements before it had written
putDocument ==
  /\ args.fn = "putDocument"
  /\ result.fn = "none"
  /\ IF args.id \notin DOMAIN db.documents
     THEN result' = [fn |-> "putDocument", status |-> 404] /\ UNCHANGED db
     ELSE IF db.documents[args.id].user_id # args.userId
     THEN result' = [fn |-> "putDocument", status |-> 403] /\ UNCHANGED db
     ELSE LET document == db.documents[args.id]
              updatedDocument ==
                [document EXCEPT
                   !.title = IF args.title # "undefined" THEN args.title ELSE @,
                   !.notes = IF args.notes # "undefined" THEN args.notes ELSE @]
              updated == [db.documents EXCEPT ![args.id] = updatedDocument]
              edited == args.notes # "undefined" \/ args.title # "undefined"
          IN \/ /\ result' = [fn |-> "putDocument", status |-> 200]
                /\ db' = [documents |-> updated,
                          vectors |-> IF edited
                                      THEN updateMetadataVector(
                                             db.vectors, args.id,
                                             updatedDocument.title,
                                             updatedDocument.notes)
                                      ELSE db.vectors]
             \/ /\ result' = [fn |-> "putDocument", status |-> 500]
                /\ \/ UNCHANGED db
                   \/ edited /\ db' = [documents |-> updated, vectors |-> db.vectors]
                   \/ /\ edited
                      /\ Len(MetadataLines(updatedDocument.title,
                                           updatedDocument.notes)) > 0
                      /\ db' = [documents |-> updated,
                                vectors |-> deleteMetadataVector(db.vectors, args.id)]
  /\ UNCHANGED <<docVars, mailVars, temporal, args>>

NextEdit == putDocument

SpecEdit == InitEdit /\ [][NextEdit]_vars

\* ------------------------------------ the runs of DocumentProcessingWorkflow
\* The two places that start the workflow (POST /api/documents/upload through
\* startDocumentProcessing, and EmailDocumentProcessingWorkflow through
\* startChild), DELETE /api/documents/:id, the writes of generateVectors and
\* the end of a run, over the namespace of the server. uuidv4() and the
\* default of documents.id are any member of Uuids: the same id can come
\* again.
MaxStarts == 3                  \* starts the server accepts
RunPages == {MetadataPage, 0}   \* the pages a run writes a vector for

\* a server that holds workflow ids apart from nothing
NeverStarted(open, id) == FALSE

\* an open run holds the workflow id: the server refuses a start under it
\* (WorkflowExecutionAlreadyStarted)
AlreadyStarted(open, id) == \E r \in open : r.workflowId = id

\* start of DocumentProcessingWorkflow under workflowId
\* doc-processing-<documentId> (workflows/client.ts:47-51, part_006:132-137):
\* the namespace after it
start(t, id) ==
  IF AlreadyStarted(t.open, workflowId(id))
  THEN t
  ELSE [t EXCEPT !.open = @ \cup {[workflowId |-> workflowId(id),
                                   documentId |-> id, run |-> t.starts + 1]},
                 !.starts = @ + 1]

\* how a start ended for its caller
Outcome(t, id) ==
  IF AlreadyStarted(t.open, workflowId(id)) THEN "refused" ELSE "started"

InitStart == DocIdle /\ MailIdle /\ SearchIdle

\* POST /api/documents/upload (documents.ts:63-185): the row is created
\* under a new id (a duplicate key throws: 500), then the run is started;
\* when the start throws the document is marked ERROR and no run exists
uploadDocument ==
  /\ temporal.starts < MaxStarts
  /\ \E id \in Uuids, reached \in BOOLEAN :
       IF id \in temporal.documents
       THEN /\ ~reached
            /\ result' = [fn |-> "upload", documentId |-> id, outcome |-> "duplicate key"]
            /\ UNCHANGED temporal
       ELSE IF reached
       THEN /\ temporal' = [start(temporal, id) EXCEPT !.documents = @ \cup {id}]
            /\ result' = [fn |-> "upload", documentId |-> id,
                          outcome |-> Outcome(temporal, id)]
       ELSE /\ temporal' = [temporal EXCEPT !.documents = @ \cup {id}]
            /\ result' = [fn |-> "upload", documentId |-> id, outcome |-> "unreachable"]
  /\ UNCHANGED <<docVars, mailVars, args, db>>

\* createDocumentRecord of an EmailDocumentProcessingWorkflow run
\* (email-processing.ts:276-294, part_006:113-118)
createShell ==
  /\ temporal.starts + Cardinality(temporal.pending) < MaxStarts
  /\ \E id \in Uuids \ temporal.documents :
       /\ temporal' = [temporal EXCEPT !.documents = @ \cup {id},
                                       !.pending = @ \cup {id}]
       /\ result' = [fn |-> "createDocumentRecord", documentId |-> id,
                     outcome |-> "created"]
  /\ UNCHANGED <<docVars, mailVars, args, db>>

\* the rest of that run (part_006:120-140): rendering or attaching fails and
\* the run ends, or the child is started
startChildOfShell ==
  /\ \E id \in temporal.pending, rendered \in BOOLEAN :
       IF rendered
       THEN /\ temporal' = [start(temporal, id) EXCEPT !.pending = @ \ {id}]
            /\ result' = [fn |-> "startChild", documentId |-> id,
                          outcome |-> Outcome(temporal, id)]
       ELSE /\ temporal' = [temporal EXCEPT !.pending = @ \ {id}]
            /\ result' = [fn |-> "startChild", documentId |-> id,
                          outcome |-> "not rendered"]
  /\ UNCHANGED <<docVars, mailVars, args, db>>

\* DELETE /api/documents/:id (documents.ts:1048-1088): the row goes, the run
\* of the document is not told
deleteRow ==
  /\ \E id \in temporal.documents :
       /\ temporal' = [temporal EXCEPT !.documents = @ \ {id}]
       /\ result' = [fn |-> "delete", documentId |-> id, outcome |-> "deleted"]
  /\ UNCHANGED <<docVars, mailVars, args, db>>

\* generateVectors of an open run sends the INSERT of a page
\* (document-processing.ts:303-325)
beginWrite ==
  /\ \E r \in temporal.open, page \in RunPages :
       LET w == [run |-> r.run, documentId |-> r.documentId, page |-> page]
       IN /\ \A v \in temporal.writing : v.run # r.run
          /\ temporal' = [temporal EXCEPT !.writing = @ \cup {w}]
  /\ UNCHANGED <<docVars, mailVars, args, result, db>>

\* the INSERT has returned
endWrite ==
  /\ \E w \in temporal.writing :
       temporal' = [temporal EXCEPT !.writing = @ \ {w}]
  /\ UNCHANGED <<docVars, mailVars, args, result, db>>

\* the run has completed or failed: its workflow id is free again
closeRun ==
  /\ \E r \in temporal.open :
       /\ \A w \in temporal.writing : w.run # r.run
       /\ temporal' = [temporal EXCEPT !.open = @ \ {r}]
  /\ UNCHANGED <<docVars, mailVars, args, result, db>>

NextStart ==
  \/ uploadDocument
  \/ createShell
  \/ startChildOfShell
  \/ deleteRow
  \/ beginWrite
  \/ endWrite
  \/ closeRun

SpecStart == InitStart /\ [][NextStart]_vars

\* ===================================================================
\* Properties
\* ===================================================================
StageActivities ==
  {"convertPdfToImages", "startOcrProcessing", "extractTextFromPage",
   "completeOcrProcessing", "generateVectors", "indexDocument"}

RunOver == pc \in {"done", "failed"}

\* C1: the status becomes READY only after PROCESSING and then OCR_COMPLETE;
\* OCR_COMPLETE is entered only from PROCESSING and READY only from
\* OCR_COMPLETE.
C1_StatusOrder ==
  \A i \in 1..Len(statusLog) :
    /\ statusLog[i] = "OCR_COMPLETE" => i > 1 /\ statusLog[i - 1] = "PROCESSING"
    /\ statusLog[i] = "READY" =>
         /\ i > 1 /\ statusLog[i - 1] = "OCR_COMPLETE"
         /\ \E j \in 1..(i - 1) : \E k \in (j + 1)..(i - 1) :
              statusLog[j] = "PROCESSING" /\ statusLog[k] = "OCR_COMPLETE"

\* C2: once the status is ERROR, no later step of the run sets it to
\* another value.
C2_ErrorAbsorbing == [][status = "ERROR" => status' = "ERROR"]_vars

\* C3: when a stage activity has failed on all of its attempts, the status
\* of the document is ERROR.
C3_ExhaustedStageEndsInError ==
  (pc = "failed" /\ failure = "ActivityFailure" /\ failedAt \in StageActivities)
    => status = "ERROR"

\* every page of the document was extracted, and with empty text
AllPagesEmpty ==
  /\ Len(pages) > 0
  /\ \A p \in 1..Len(pages) : pages[p].state = "done" /\ pages[p].text = ""

\* C4: when the OCR service returns empty text for every page, the document
\* never reaches READY, and a run in which no activity exhausts its attempts
\* ends with OCRExtractionError and status ERROR.
C4_AllEmptyFails ==
  AllPagesEmpty =>
    /\ status # "READY"
    /\ (RunOver /\ failure # "ActivityFailure")
         => (failure = "OCRExtractionError" /\ status = "ERROR")

\* the loop over the files is over and no image was made
ZeroPages ==
  /\ pc \notin {"fetchEmailHtml", "createDocumentRecord", "convertHtmlToPdf",
                "updateDocumentPath", "startChild", "start"}
  /\ fileIdx > Len(files)
  /\ allImagePaths = <<>>

\* C5: when rasterization yields no image at all, the run fails with
\* ImageConversionError and the status of the document is ERROR.
C5_ZeroPagesEndsInError ==
  ZeroPages => (pc = "failed" /\ failure = "ImageConversionError"
                /\ status = "ERROR")

\* C6: for a file of an unsupported type exactly one attempt of
\* rasterization is made (no other failure having occurred in the run).
C6_UnsupportedNotRetried ==
  (pc = "convertPdfToImages" /\ files[fileIdx].kind = "bad" /\ failures = 0)
    => attempt = 1

\* the OCR_EXTRACTION record is closed
OcrRecordClosed ==
  \E i \in 1..Len(procStatus) :
    procStatus[i].stage = "OCR_EXTRACTION" /\ procStatus[i].completed

\* C7: generateVectors is started, the document is marked OCR_COMPLETE and
\* the OCR_EXTRACTION record is closed only when the extractTextFromPage
\* request of every page has completed successfully.
C7_FanInJoin ==
  ("generateVectors" \in Range(started)
     \/ "completeOcrProcessing" \in Range(started)
     \/ "OCR_COMPLETE" \in Range(statusLog)
     \/ OcrRecordClosed)
  => /\ Len(pages) = Len(allImagePaths)
     /\ Len(pages) > 0
     /\ \A p \in 1..Len(pages) : pages[p].state = "done"

C7_Witness ==
  /\ "generateVectors" \in Range(started)
  /\ status = "OCR_COMPLETE"
  /\ OcrRecordClosed
  /\ Len(pages) >= 2

\* C8: there is at most one PageVector row per page number of the document.
C8_OneRowPerPage ==
  \A i, j \in 1..Len(vectors) : i # j => vectors[i].page # vectors[j].page

RECURSIVE PagesBefore(_)
\* number of images of the files before file j
PagesBefore(j) ==
  IF j <= 1 THEN 0 ELSE PagesBefore(j - 1) + PageCount(files[j - 1])

\* C9: the page numbers of the images are 0, 1, 2, ... in file order: the
\* images of file j are numbered from the number of images of the files
\* before it, and a file without images leaves no gap.
C9_PageNumbersContiguous ==
  LET done == IF pc = "convertPdfToImages" THEN fileIdx ELSE Len(files) + 1
  IN pc \notin {"fetchEmailHtml", "createDocumentRecord", "convertHtmlToPdf",
                "updateDocumentPath", "startChild", "start"}
     /\ "convertPdfToImages" \in Range(started)
     /\ (pc = "failed" => failedAt # "convertPdfToImages")
     => /\ Len(allImagePaths) = PagesBefore(done)
        /\ \A i \in 1..Len(allImagePaths) : allImagePaths[i] = i - 1
        /\ \A j \in 1..(done - 1) : \A n \in 1..PageCount(files[j]) :
             allImagePaths[PagesBefore(j) + n] = PagesBefore(j) + n - 1

C9_Witness ==
  /\ Len(files) = 2
  /\ files[1].kind = "img"
  /\ files[2] = [kind |-> "pdf", pages |-> 1]
  /\ pc = "startOcrProcessing"
  /\ pageOffset = 2
  /\ allImagePaths = <<0, 1>>

\* the backoff intervals waited before attempt n of an activity
ExpectedWaits(n) == SubSeq(<<1, 2>>, 1, n - 1)

\* C10: an activity is attempted at most 3 times, the waits between its
\* attempts are 1 then 2 (never above 30), and its failure reaches the
\* workflow after the third failed attempt and not before.
C10_RetryPolicy ==
  /\ attempt \in 1..3
  /\ waits = ExpectedWaits(attempt)
  /\ \A p \in 1..Len(pages) :
       /\ pages[p].attempt \in 1..3
       /\ pages[p].waits = ExpectedWaits(pages[p].attempt)
       /\ pages[p].state = "failed" => pages[p].attempt = 3
  /\ \A i \in 1..Len(waits) : waits[i] <= 30
  /\ (failure = "ActivityFailure" /\ failedAt # "extractTextFromPage")
       => attempt = 3
  /\ (failure = "ActivityFailure" /\ failedAt = "extractTextFromPage")
       => \E p \in 1..Len(pages) : pages[p].state = "failed"

C10_Witness ==
  /\ pc = "failed"
  /\ failure = "ActivityFailure"
  /\ failedAt = "convertHtmlToPdf"
  /\ attempt = 3
  /\ waits = <<1, 2>>

\* ------------------------------------------------------- mailbox polling
\* the step writes imap_last_uid of user u
WritesCursor(u) == lastUid'[u] # lastUid[u]

\* C11: imap_last_uid of a user is written only by a CheckUserEmailsWorkflow
\* run of that user that has started the child of every message of its
\* batch, the value written is the largest uid of the batch, and a run that
\* has failed has written nothing.
C11_CursorAfterFullDispatch ==
  /\ [](\A r \in 1..Len(runs) : runs[r].pc = "failed" => ~runs[r].wrote)
  /\ [][\A u \in Users : WritesCursor(u) =>
          \E r \in 1..Len(runs) :
            /\ runs[r].user = u
            /\ runs[r].pc = "updateImapLastUid" /\ runs'[r].pc = "done"
            /\ runs[r].dispatched = runs[r].emails
            /\ lastUid'[u] \in Range(runs[r].emails)
            /\ \A i \in 1..Len(runs[r].emails) : runs[r].emails[i] <= lastUid'[u]]_vars

C11_Witness ==
  \E r \in 1..Len(runs) :
    /\ runs[r].pc = "failed"
    /\ Len(runs[r].emails) = 2
    /\ Len(runs[r].dispatched) = 1
    /\ lastUid[runs[r].user] = 0

\* C12: imap_last_uid of a user never decreases.
C12_CursorMonotone ==
  [][\A u \in Users : lastUid'[u] >= lastUid[u]]_vars

\* the step is the failure of run r
FailsRun(r) == runs[r].pc # "failed" /\ runs'[r].pc = "failed"

\* C13: the failure of a CheckUserEmailsWorkflow run (its getUserEmails, the
\* start of a child of it, its updateImapLastUid) changes neither the
\* scheduler run nor the run of another user, its messages or its cursor.
C13_UserIsolation ==
  [][\A r \in 1..Len(runs) : FailsRun(r) =>
       /\ sched' = sched
       /\ Len(runs') = Len(runs)
       /\ \A q \in 1..Len(runs) : q # r => runs'[q] = runs[q]
       /\ lastUid' = lastUid /\ mailbox' = mailbox /\ children' = children]_vars

C13_Witness ==
  \E r, q \in 1..Len(runs) :
    /\ runs[r].user = "a" /\ runs[q].user = "b"
    /\ runs[r].tick = runs[q].tick
    /\ r < q
    /\ runs[r].pc = "failed"
    /\ runs[q].pc = "done" /\ runs[q].wrote
    /\ lastUid["b"] > 0

\* ------------------------------------------------------------ vectorizer
\* the text has no character but white space
BlankText(t) == TrimText(t) = <<>>

\* C17: a non-empty map returned by generateSparseVector has all its weights
\* in [0, 1] and its largest weight is 1.
C17_SparseNormalized ==
  (result.fn = "generateSparseVector" /\ DOMAIN result.value # {})
    => /\ \A w \in DOMAIN result.value :
            result.value[w] >= 0 /\ result.value[w] <= Thousand
       /\ \E w \in DOMAIN result.value : result.value[w] = Thousand

Occurrences(fullText, query) ==
  {indexOf(toLowerCase(fullText), MatchWords(toLowerCase(query))[i]) :
     i \in 1..Len(MatchWords(toLowerCase(query)))} \ {0 - 1}

\* C18: when a token of the query occurs in the text, the snippet is taken
\* around the earliest occurrence, reaches at most 150 characters before it
\* and at most 150 characters after it, and has an ellipsis at each end that
\* was cut and at no other; otherwise it is the first 300 characters of the
\* text, with an ellipsis iff the text is longer.
C18_SnippetWindow ==
  result.fn = "extractSnippet" =>
    LET t == args.fullText
        occ == Occurrences(t, args.query)
        r == result.value
    IN IF occ # {}
       THEN LET pos == CHOOSE i \in occ : \A j \in occ : i <= j
            IN /\ r.matchPosition = pos
               /\ r.snippetStart <= pos /\ pos - r.snippetStart <= 150
               /\ pos <= r.snippetEnd /\ r.snippetEnd - pos <= 150
               /\ r.snippet = TrimText(
                    (IF r.snippetStart > 0 THEN <<".", ".", ".">> ELSE <<>>)
                    \o SubSeq(t, r.snippetStart + 1, r.snippetEnd)
                    \o (IF r.snippetEnd < Len(t) THEN <<".", ".", ".">> ELSE <<>>))
       ELSE r.snippet = SubSeq(t, 1, IF Len(t) < 300 THEN Len(t) ELSE 300)
                          \o (IF Len(t) > 300 THEN <<".", ".", ".">> ELSE <<>>)

\* the rows of db.vectors the search of args can see
Visible ==
  {i \in DOMAIN db.vectors :
     Where(db.documents[db.vectors[i].document_id], args.userId, args.filters)}

\* C14: hybridSearch never returns two results with the same document id,
\* whatever the stored vectors, the query and the filters.
C14_OneResultPerDocument ==
  (result.fn = "search" /\ result.status = 200) =>
    \A i, j \in DOMAIN result.allResults :
      result.allResults[i].document_id = result.allResults[j].document_id => i = j

\* a document with two visible rows at the same distance from the query, and
\* a second document, each once in the results
C14_Witness ==
  /\ result.fn = "search" /\ result.status = 200
  /\ Len(result.allResults) = 2
  /\ \E i, j \in Visible :
       /\ i # j
       /\ db.vectors[i].document_id = db.vectors[j].document_id
       /\ db.vectors[i].text_content = db.vectors[j].text_content

C16_ScoreAtMostOne ==
  (result.fn = "search" /\ result.status = 200) =>
    \A i \in DOMAIN result.allResults :
      result.allResults[i].relevance_score <= Thousand + 1

\* C19: a query that is empty or only whitespace is answered 400 before any
\* vector is made and before the database is asked; a search of an owner
\* without vectors is answered 200 with no result.
C19_BlankQueryRejected ==
  result.fn = "search" =>
    /\ TrimText(args.q) = <<>> => result.status = 400 /\ result.calls = <<>>
    /\ (/\ TrimText(args.q) # <<>>
        /\ \A i \in DOMAIN db.vectors :
             db.documents[db.vectors[i].document_id].user_id # args.userId)
         => /\ result.status = 200
            /\ result.allResults = <<>>
            /\ result.results = <<>>

\* a query of one space answered 400 over a table with rows of the owner
C19_Witness ==
  /\ result.fn = "search"
  /\ args.q = <<" ">>
  /\ result.status = 400
  /\ \E i \in DOMAIN db.vectors :
       db.documents[db.vectors[i].document_id].user_id = args.userId

\* ------------------------------------------------- stage failures, pages
\* the stage an activity belongs to
StageOf(activity) ==
  CASE activity = "convertPdfToImages" -> "PDF_CONVERSION"
    [] activity \in {"startOcrProcessing", "extractTextFromPage",
                     "completeOcrProcessing"} -> "OCR_EXTRACTION"
    [] activity = "generateVectors" -> "VECTORIZATION"
    [] activity = "indexDocument" -> "INDEXING_COMPLETE"

\* C21: when a stage has failed (an activity of the stage has thrown on its
\* last attempt), the latest processing_status row of that stage carries the
\* error message and a retry count that was incremented.
C21_FailureRecorded ==
  (pc = "failed" /\ failure = "ActivityFailure" /\ failedAt \in StageActivities)
    => LET i == FindFirst(procStatus, StageOf(failedAt))
       IN /\ i # 0
          /\ procStatus[i].error
          /\ procStatus[i].retry >= 1

\* C22: when an attempt of generateVectors has thrown at the insert of its
\* k-th text page, the rows of the pages before it that have text are in
\* the vectors table, with their text, and no step removes or changes a row
\* of the table.
C22_NoRollback ==
  /\ [](thrownAt.point = "insert" =>
          \A i \in 1..(thrownAt.k - 1) :
            ~Blank(textPages[i].text) =>
              \E r \in 1..Len(vectors) :
                vectors[r] = [page |-> textPages[i].pageNumber,
                              text |-> textPages[i].text])
  /\ [][/\ Len(vectors') >= Len(vectors)
        /\ SubSeq(vectors', 1, Len(vectors)) = vectors]_vars

\* the second of two pages with text has failed: the row of the first is
\* there and the status is ERROR
C22_Witness ==
  /\ thrownAt = [point |-> "insert", k |-> 2]
  /\ pc = "generateVectors"
  /\ attempt = 2
  /\ status = "ERROR"
  /\ Len(vectors) = 1
  /\ ~Blank(textPages[1].text)

\* the results of the extractTextFromPage requests, in page order
OcrPages ==
  [p \in 1..Len(pages) |-> [pageNumber |-> pages[p].pageNumber, text |-> pages[p].text]]

\* the text of the title/notes page
MetadataText ==
  IF trim(wfTitle) # "" /\ trim(wfNotes) # ""
  THEN "Title: " \o trim(wfTitle) \o "|" \o "Notes: " \o trim(wfNotes)
  ELSE IF trim(wfTitle) # "" THEN "Title: " \o trim(wfTitle)
  ELSE "Notes: " \o trim(wfNotes)

\* C23: the pages handed to generateVectors are the OCR pages, with one page
\* -1 made of the title and the notes in front of them if and only if the
\* trimmed title or the trimmed notes is not empty.
C23_MetadataPage ==
  pc = "generateVectors" =>
    IF trim(wfTitle) # "" \/ trim(wfNotes) # ""
    THEN /\ textPages = <<[pageNumber |-> 0 - 1, text |-> MetadataText]>> \o OcrPages
         /\ \A i \in 2..Len(textPages) : textPages[i].pageNumber >= 0
    ELSE textPages = OcrPages

\* a blank title and notes: page -1 in front of two OCR pages
C23_Witness ==
  /\ pc = "generateVectors"
  /\ wfTitle = " " /\ wfNotes = "N"
  /\ Len(textPages) = 3
  /\ textPages[1] = [pageNumber |-> 0 - 1, text |-> "Notes: N"]

\* the pages of a list are in ascending order
AscendingPages(body) ==
  \A i, j \in DOMAIN body : i < j => body[i].pageNumber <= body[j].pageNumber

\* C24: the page query of a document returns its pages of number 0 and above,
\* all of them, in ascending order, and never page -1; the search returns a
\* document whose only visible row is its page -1, with that page.
C24_MetadataPageHidden ==
  /\ (result.fn = "getVectors" /\ result.status = 200) =>
       /\ \A i \in DOMAIN result.body : result.body[i].pageNumber >= 0
       /\ AscendingPages(result.body)
       /\ \A r \in DOMAIN db.vectors :
            (db.vectors[r].document_id = args.id /\ db.vectors[r].page_number >= 0)
              => \E i \in DOMAIN result.body :
                   result.body[i] = [pageNumber |-> db.vectors[r].page_number,
                                     text |-> db.vectors[r].text_content]
  /\ (result.fn = "search" /\ result.status = 200) =>
       \A r \in Visible :
         (/\ db.vectors[r].page_number = 0 - 1
          /\ \A q \in Visible :
               db.vectors[q].document_id = db.vectors[r].document_id => q = r)
           => \E i \in DOMAIN result.allResults :
                /\ result.allResults[i].document_id = db.vectors[r].document_id
                /\ result.allResults[i].page_number = 0 - 1

\* the pages 0 and 1 of a document that also has a page -1
C24_Witness ==
  /\ result.fn = "getVectors" /\ result.status = 200
  /\ Len(result.body) = 2
  /\ \E r \in DOMAIN db.vectors :
       db.vectors[r].document_id = args.id /\ db.vectors[r].page_number = 0 - 1

\* C25: once the document is deleted, no vectors row and no
\* processing_status row of it exists, at the delete and in every later
\* state of a run that goes on.
C25_DeleteCascades ==
  status = "DELETED" => (vectors = <<>> /\ procStatus = <<>>)

\* deleted after the OCR stage, with rows of two stages; the run went on and
\* generateVectors has thrown on its three attempts
C25_Witness ==
  /\ status = "DELETED"
  /\ "OCR_COMPLETE" \in Range(statusLog)
  /\ pc = "failed"
  /\ failedAt = "generateVectors"
  /\ attempt = 3

\* C26: when the run has failed because an extractTextFromPage request has
\* thrown on its last attempt, every other request of the document has
\* settled: none is pending.
C26_JoinWaitsForAll ==
  (pc = "failed" /\ failedAt = "extractTextFromPage")
    => \A p \in 1..Len(pages) : pages[p].state # "pending"

\* C27: the position extractSnippet builds its snippet around is the position
\* of a query token of more than two characters: a token of one or two
\* characters decides nothing.
C27_ShortTokensIgnored ==
  (result.fn = "extractSnippet" /\ result.value.matchPosition # 0 - 1) =>
    \E i \in 1..Len(MatchWords(toLowerCase(args.query))) :
      /\ Len(MatchWords(toLowerCase(args.query))[i]) > 2
      /\ indexOf(toLowerCase(args.fullText), MatchWords(toLowerCase(args.query))[i])
           = result.value.matchPosition

\* C28: getUserEmails returns only messages with uid > imap_last_uid, all
\* the messages of the folder when imap_last_uid is unset, also when the
\* server answers with a message at or below the cursor, and returns them
\* in ascending order of uid
C28_NewEmailsAscending ==
  result.fn = "getUserEmails" =>
    /\ \A i \in 1..Len(result.emails) :
         args.imap_last_uid = 0 \/ result.emails[i] > args.imap_last_uid
    /\ args.imap_last_uid = 0 => Range(result.emails) = args.folder
    /\ \A i \in 1..Len(result.emails) - 1 :
         result.emails[i] < result.emails[i + 1]

\* the step in which a DocumentProcessingWorkflow run is started
StartsOrchestrator == childHandle' # childHandle

\* C29: for an email the Document shell is created with status UPLOADED,
\* then the body is rendered to a file, then the path of the file is
\* attached to the Document, and only then one DocumentProcessingWorkflow
\* run is started, exactly one, under the workflow id made of the id of
\* that document; no run is started for a document that does not exist or
\* has no file path
C29_ShellRenderAttachStart ==
  /\ [](/\ Len(childHandle) <= 1
        /\ \A i \in 1..Len(childHandle) :
             /\ childHandle[i].documentId = documentId
             /\ childHandle[i].workflowId = "doc-processing-" \o documentId
        /\ pc \in {"start", "convertPdfToImages", "startOcrProcessing",
                   "extractTextFromPage", "completeOcrProcessing",
                   "generateVectors", "indexDocument", "done"}
             => Len(childHandle) = 1)
  /\ [][/\ status' = "UPLOADED" /\ status # "UPLOADED"
             => status = "NONE" /\ files = <<>> /\ childHandle = <<>>
        /\ files' # files
             => status = "UPLOADED" /\ filePath = "" /\ childHandle = <<>>
        /\ filePath' = "set" /\ filePath # "set"
             => status = "UPLOADED" /\ files # <<>> /\ childHandle = <<>>
        /\ StartsOrchestrator
             => /\ childHandle = <<>>
                /\ status = "UPLOADED"
                /\ documentId # "none"
                /\ filePath = "set"
                /\ started = <<"fetchEmailHtml", "createDocumentRecord",
                               "convertHtmlToPdf", "updateDocumentPath">>]_vars

\* the run of the document d2, made of an email, has been started and is
\* at its first activity
C29_Witness ==
  /\ Len(childHandle) = 1
  /\ childHandle[1] = [workflowId |-> "doc-processing-d2", documentId |-> "d2"]
  /\ statusLog = <<"NONE", "UPLOADED">>
  /\ filePath = "set"
  /\ pc = "convertPdfToImages"

\* a step of the run in which no activity throws
Proceeds ==
  \/ fetchEmailHtmlOk \/ createDocumentRecordOk \/ convertHtmlToPdfOk
  \/ updateDocumentPathOk \/ startChild \/ DocumentProcessingWorkflow
  \/ convertPdfToImagesOk \/ startOcrProcessingOk
  \/ \E p \in 1..Len(pages) : extractTextFromPageOk(p)
  \/ PromiseAll
  \/ completeOcrProcessingOk \/ generateVectorsOk \/ indexDocumentOk

\* no activity the run waits for fails for a lasting reason
NothingBroken ==
  /\ ~broken
  /\ \A p \in 1..Len(pages) : ~pages[p].broken

\* C30: a page with empty text does not fail the document: a run with a
\* page never ends by a failure of the workflow code, a run that has its
\* pages and in which no activity fails can always go on until it is done,
\* whatever the texts of the pages, and a run that is done
\* has left the document READY with a vectors row for every text page that
\* is not blank and none for a blank one
C30_BlankPageSkipped ==
  /\ (pc = "failed" /\ failedAt = "workflow") => allImagePaths = <<>>
  /\ (/\ pc \in {"extractTextFromPage", "completeOcrProcessing",
                  "generateVectors", "indexDocument"}
      /\ NothingBroken) => ENABLED Proceeds
  /\ pc = "done" =>
       /\ status = "READY"
       /\ \A i \in 1..Len(textPages) :
            trim(textPages[i].text) = ""
              <=> ~\E r \in 1..Len(vectors) :
                     vectors[r].page = textPages[i].pageNumber

\* a document of two pages, the first of them without text, is READY with
\* one vectors row, that of the second page
C30_Witness ==
  /\ pc = "done"
  /\ status = "READY"
  /\ failures = 0
  /\ wfNotes = ""
  /\ trim(wfTitle) = ""
  /\ textPages = <<[pageNumber |-> 0, text |-> ""],
                   [pageNumber |-> 1, text |-> "txt"]>>
  /\ vectors = <<[page |-> 1, text |-> "txt"]>>

\* ------------------------------------------------------ READY, the records
\* C31: in the step that sets the status to READY, the processing_status
\* table holds an INDEXING_COMPLETE row with its completion time and no
\* error, and before it a VECTORIZATION row with its completion time and no
\* error; generateVectors was begun before indexDocument
C31_ReadyAfterIndexingRecord ==
  [][(status' = "READY" /\ status # "READY") =>
       /\ \E i \in 1..Len(procStatus') :
            /\ procStatus'[i] = [stage |-> "INDEXING_COMPLETE", completed |-> TRUE,
                                 error |-> FALSE, retry |-> 0]
            /\ \E j \in 1..(i - 1) :
                 /\ procStatus'[j].stage = "VECTORIZATION"
                 /\ procStatus'[j].completed
                 /\ ~procStatus'[j].error
       /\ \E a \in 1..Len(started') : \E b \in (a + 1)..Len(started') :
            started'[a] = "generateVectors" /\ started'[b] = "indexDocument"]_vars

\* a document that is READY after a second attempt of generateVectors
C31_Witness ==
  /\ status = "READY"
  /\ pc = "done"
  /\ \E i \in 1..Len(procStatus) :
       procStatus[i].stage = "VECTORIZATION" /\ procStatus[i].error

\* ------------------------------------------------- edits of title and notes
\* the title/notes rows of document id in a vectors table
MetadataRows(rows, id) ==
  {i \in DOMAIN rows : rows[i].document_id = id /\ rows[i].page_number = MetadataPage}

\* the rows of a vectors table that are no title/notes row of document id
OtherRows(rows, id) ==
  SelectSeq(rows, LAMBDA v : v.document_id # id \/ v.page_number >= 0)

\* C32: after an edit of title or notes that has returned 200, the document
\* has its new title and notes and exactly one row of page -1, with the text
\* made of them, if one of them has text, and no row of page -1 if both are
\* blank; the rows of the pages >= 0, the rows of other documents and the
\* status of every document are as before the edit.
C32_EditRewritesMetadataPage ==
  [][(/\ result'.fn = "putDocument"
      /\ result'.status = 200
      /\ args.title # "undefined" \/ args.notes # "undefined")
       => LET d == db'.documents[args.id]
              rows == MetadataRows(db'.vectors, args.id)
              hasText == (d.title \notin {"", " "}) \/ (d.notes \notin {"", " "})
          IN /\ args.title # "undefined" => d.title = args.title
             /\ args.notes # "undefined" => d.notes = args.notes
             /\ hasText =>
                  /\ Cardinality(rows) = 1
                  /\ \A i \in rows :
                       db'.vectors[i].text_content =
                         CASE d.title \in {"", " "} -> "Notes: " \o d.notes
                           [] d.notes \in {"", " "} -> "Title: " \o d.title
                           [] OTHER -> "Title: " \o d.title \o "|Notes: " \o d.notes
             /\ ~hasText => rows = {}
             /\ OtherRows(db'.vectors, args.id) = OtherRows(db.vectors, args.id)
             /\ \A k \in DOMAIN db.documents :
                  db'.documents[k].status = db.documents[k].status]_vars

\* an edit of the title alone has left d1 with its page 0 and one title/notes
\* row, made of the new title and the notes it had
C32_Witness ==
  /\ result = [fn |-> "putDocument", status |-> 200]
  /\ args.id = "d1" /\ args.title = "T2" /\ args.notes = "undefined"
  /\ db.documents["d1"].notes = "N"
  /\ Len(db.vectors) = 2
  /\ db.vectors[1].page_number = 0
  /\ db.vectors[2] = [document_id |-> "d1", page_number |-> MetadataPage,
                      text_content |-> "Title: T2|Notes: N"]

\* ------------------------------------------------- the page of a document
\* the distance of every text of a page from every query, worked out once
\* as the database does (embeddings.ts:212)
DistanceOf ==
  [q \in {x \in SearchQueries : ~isBlank(x)} |->
     [k \in 1..Len(PageTexts) |->
        denseDistance(generateDenseVector(PageTexts[k]), generateDenseVector(q))]]

\* the rows of the vectors table with their distance from the query of the
\* call
RowDistances ==
  {[document_id |-> db.vectors[i].document_id,
    page_number |-> db.vectors[i].page_number,
    text_content |-> db.vectors[i].text_content,
    dense_distance |->
      DistanceOf[args.q][CHOOSE k \in 1..Len(PageTexts) :
                           PageTexts[k] = db.vectors[i].text_content]] :
     i \in DOMAIN db.vectors}

\* C33: the page hybridSearch keeps for a document is a page of the document
\* of the lowest dense distance from the query among all the rows of the
\* document, the row of page -1 with them.
C33_LowestDistancePage ==
  (result.fn = "search" /\ result.status = 200) =>
    /\ \A k \in 1..Len(result.allResults) :
         \E i \in DOMAIN db.vectors :
           /\ db.vectors[i].document_id = result.allResults[k].document_id
           /\ db.vectors[i].page_number = result.allResults[k].page_number
    /\ \A v \in RowDistances :
         \A k \in 1..Len(result.allResults) :
           LET r == result.allResults[k]
           IN v.document_id = r.document_id =>
                /\ r.dense_distance <= v.dense_distance
                /\ v.page_number = r.page_number =>
                     v.dense_distance = r.dense_distance

\* the page kept for d1 is its page -1, and another page of d1 is farther
\* from the query
C33_Witness ==
  /\ result.fn = "search" /\ result.status = 200
  /\ \E k \in 1..Len(result.allResults) :
       /\ result.allResults[k].document_id = "d1"
       /\ result.allResults[k].page_number = MetadataPage
       /\ \E v \in RowDistances :
            /\ v.document_id = "d1"
            /\ v.page_number >= 0
            /\ v.dense_distance > result.allResults[k].dense_distance

\* the hybrid score of a row for the query of the call (embeddings.ts:290-301)
RowScores ==
  LET querySparseVector == generateSparseVector(args.q)
  IN {[document_id |-> v.document_id,
       page_number |-> v.page_number,
       relevance_score |->
         searchResult(v @@ [sparse_vec |-> generateSparseVector(v.text_content)],
                      args.q, querySparseVector).relevance_score] :
        v \in RowDistances}

\* C34: for every document hybridSearch returns, no page of the document has
\* a higher hybrid score (0.6 dense + 0.4 sparse) than the page returned.
C34_HighestScoringPage ==
  (result.fn = "search" /\ result.status = 200) =>
    LET rows == RowScores
    IN \A k \in 1..Len(result.allResults) :
         \A v \in rows :
           v.document_id = result.allResults[k].document_id
             => v.relevance_score <= result.allResults[k].relevance_score

\* ------------------------------------------------------- the fan-out join
\* C35: after the join, whatever the order in which the requests returned,
\* the text pages are in page order: the i-th of them (counted from 0) has
\* page number i, which is the number in the name page-<n>.png of the image
\* it was extracted from, and carries the text extracted from that image,
\* for documents of one file and of several.
C35_TextPagesInPageOrder ==
  pc = "completeOcrProcessing" =>
    /\ Len(textPages) = Len(allImagePaths)
    /\ \A i \in 1..Len(textPages) :
         /\ textPages[i].pageNumber = i - 1
         /\ textPages[i].pageNumber = allImagePaths[i]
         /\ pages[i].imagePath = allImagePaths[i]
         /\ textPages[i].text = pages[i].text

\* a document of two files of one page each; the request of the second page
\* returned first
C35_Witness ==
  /\ pc = "completeOcrProcessing"
  /\ Len(files) = 2
  /\ Len(pages) = 2
  /\ pages[1].settled = 2
  /\ pages[2].settled = 1
  /\ textPages = <<[pageNumber |-> 0, text |-> ""], [pageNumber |-> 1, text |-> "txt"]>>

\* -------------------------------------------------------- one run per id
\* C36: at any time at most one run of DocumentProcessingWorkflow is open
\* for a document id, and no two runs have a write of the same (document,
\* page) under way at the same time.
C36_OneRunPerDocument ==
  /\ \A r1, r2 \in temporal.open : r1.documentId = r2.documentId => r1 = r2
  /\ \A w1, w2 \in temporal.writing :
       w1.documentId = w2.documentId /\ w1.page = w2.page => w1.run = w2.run

\* a start was refused for a document whose earlier run is open and
\* writing, while the run of another document writes the same page number
C36_Witness ==
  /\ result.fn \in {"upload", "startChild"}
  /\ result.outcome = "refused"
  /\ \E w1, w2 \in temporal.writing :
       /\ w1.documentId = result.documentId
       /\ w2.documentId # w1.documentId
       /\ w1.page = w2.page

\* ------------------------------------------------ one Document per message
\* the number of Documents made from message m of user u
DocumentsOf(u, m) == CopiesIn([user_id |-> u, uid |-> m], db.documents)

\* C37: a message (user, uid) of a mailbox is converted into at most one
\* Document, across ticks and under any interleaving of the runs of
\* CheckUserEmailsWorkflow of the user, also when the dispatch of a tick
\* fails part-way and the batch is found again on the next tick.
C37_OneDocumentPerMessage ==
  \A u \in Users : \A m \in mailbox[u] : DocumentsOf(u, m) <= 1

\* the batch of a tick was dispatched in part only; the next tick found the
\* message again after its first run was over, and both runs made a Document
RediscoveredMessage ==
  \E r1, r2 \in 1..Len(runs) :
    /\ r1 < r2
    /\ runs[r1].user = runs[r2].user
    /\ runs[r1].pc = "failed"
    /\ ~runs[r1].wrote
    /\ \E k \in 1..Len(runs[r1].dispatched) :
         /\ \E j \in 1..Len(runs[r2].dispatched) :
              runs[r2].dispatched[j] = runs[r1].dispatched[k]
         /\ DocumentsOf(runs[r1].user, runs[r1].dispatched[k]) = 2

\* ------------------------------------------------- the owner of the results
\* the tables without the documents of other users and without their rows
OwnTables(tables, userId) ==
  LET own == {id \in DOMAIN tables.documents : tables.documents[id].user_id = userId}
  IN [documents |-> [id \in own |-> tables.documents[id]],
      vectors |-> SelectSeq(tables.vectors, LAMBDA v : v.document_id \in own)]

\* C38: for every combination of filters, hybridSearch returns only
\* documents that the given user owns and that are READY, and what it
\* returns is what it returns on the tables without the documents and the
\* vectors of the other users: these never change the list.
C38_OnlyOwnReadyDocuments ==
  (result.fn = "search" /\ result.status = 200) =>
    /\ \A k \in 1..Len(result.allResults) :
         LET id == result.allResults[k].document_id
         IN /\ id \in DOMAIN db.documents
            /\ db.documents[id].user_id = args.userId
            /\ db.documents[id].status = "READY"
    /\ (\E id \in DOMAIN db.documents : db.documents[id].user_id # args.userId) =>
         result.allResults \in
           hybridSearch(args.q, args.userId, args.filters, OwnTables(db, args.userId))

\* a search without filters over tables in which another user has a READY
\* document with a page nearer to the query than the page returned
C38_Witness ==
  /\ result.fn = "search"
  /\ result.status = 200
  /\ args.filters = NoFilters
  /\ Len(result.allResults) = 1
  /\ db.documents["d2"].user_id = "b"
  /\ db.documents["d2"].status = "READY"
  /\ \E i \in DOMAIN db.vectors :
       /\ db.vectors[i].document_id = "d2"
       /\ denseDistance(generateDenseVector(db.vectors[i].text_content),
                        generateDenseVector(args.q))
            < result.allResults[1].dense_distance

\* ------------------------------------------ completion and error of a row
\* C39: no processing_status row ever has both a completion time and an
\* error message: the completion or the error of an attempt of a stage is
\* written on the row that attempt created, for documents of several files
\* and for retried attempts too.
C39_CompletedOrError ==
  \A i \in 1..Len(procStatus) : ~(procStatus[i].completed /\ procStatus[i].error)

\* ------------------------------------------------- the shell of an email
\* the runs of Spec in which a step that can be taken is taken in the end:
\* the server schedules every activity and every retry that is due
SpecLive == Init /\ [][Next]_vars /\ WF_vars(Next)

\* the row createDocumentRecord made exists and no run of
\* DocumentProcessingWorkflow has been started for it
ShellOnly == documentId # "none" /\ childHandle = <<>>

\* C40: every Document shell created by EmailDocumentProcessingWorkflow has,
\* in the end, a DocumentProcessingWorkflow run started for it or the status
\* ERROR; it does not stay UPLOADED for ever when rendering to PDF or
\* attaching the file path fails on every attempt.
C40_ShellStartedOrError ==
  ShellOnly ~> (childHandle # <<>> \/ status = "ERROR")

====
